---------------------------- MODULE Spec2Model ----------------------------
(***************************************************************************)
(* A model of the blog and doctor-aggregation handlers of the MediCAPS     *)
(* REST backend.                                                           *)
(*                                                                         *)
(*  - src/src/controllers/blog.controller.js: likeBlog, createBlog,        *)
(*    updateBlog, deleteBlog, deleteMultipleImages, deleteFeaturedImage,   *)
(*    getBlogById.  Every `await` of a handler is one step; the steps of   *)
(*    different requests interleave.                                       *)
(*  - src/src/controllers/hospitals.controller.js:                         *)
(*    getAllDoctorsWithPracticeDetails, one step per row of its loops.     *)
(*                                                                         *)
(* The database is a record of tables.  A statement issued with db.query   *)
(* is atomic and committed at once (autocommit); a statement issued on a   *)
(* connection with an open transaction is appended to that transaction's   *)
(* write list, is visible to later statements of the same connection, and  *)
(* reaches the tables at commit or is dropped at rollback.                 *)
(***************************************************************************)
EXTENDS Integers, Sequences, FiniteSets, TLC

(***************************************************************************)
(* Bounds of the model.                                                    *)
(***************************************************************************)
MaxRequests == 2          \* like requests started in one behaviour
MaxBlogRequests == 1      \* requests on connections started in one behaviour
MaxAcctRequests == 2      \* activate / deactivate requests started in one behaviour
MaxSubsRequests == 1      \* subscription requests started in one behaviour
MaxFetchRequests == 3     \* requests in a create-and-fetch run
MaxFaults == 1            \* database / media calls that fail in one behaviour
MaxRows == 2              \* rows of the doctor-practice join result
MaxQuals == 2             \* rows of doctor_qualifications
MaxReferrals == 3          \* rows of the referrals join result
MaxParents == 3            \* rows the first query of an aggregation returns
MaxProducts == 2           \* rows of millet_products the list query returns
MaxDocs == 2              \* rows of doctor_verification_docs
MaxPatients == 2          \* rows of the patient-user join

(***************************************************************************)
(* Program constants.                                                      *)
(***************************************************************************)
connectionLimit == 10     \* the pool's size
ADMIN_ROLE_ID == 3        \* users.role_id of an admin

(***************************************************************************)
(* Value domains.                                                          *)
(***************************************************************************)
Slots == {1, 2}                       \* requests that can be in progress at once
Users == {1, 2}                       \* token subjects (req.user.sub)
BlogIds == {1, 2}                     \* ids the blogs table can hold
InvalidId == -1                       \* a blog id parameter that is not a number
NullStr == "<null>"                   \* SQL NULL / JS null or undefined in a text column
Slugs == {"s1", "s2"}
Titles == {"t1", "t2"}
PublicIds == {"pa", "pb"}             \* media identifiers

\* JS truthiness of a text value: null, undefined and "" are falsy.
Truthy(s) == s # NullStr /\ s # ""

VARIABLES
    db,          \* the committed tables
    media,       \* the public ids the media host stores
    pool,        \* the pool: its idle connections, and how many connections exist
    req,         \* per slot: the request in progress, or Idle
    started,     \* requests started so far
    faultsLeft,  \* failures the environment may still inject
    cfg,         \* fixed by the initial state: how many requests may overlap, whether
                 \* requests of one user may, and whether the log is kept
    log,         \* the requests that have ended, in the order they ended
    last,        \* the request that ended last
    agg,         \* the read-only aggregation handler in progress (one of
                 \* getAllDoctorsWithPracticeDetails, getAllReferrals, ...): its
                 \* position and locals
    subs,        \* users' roles, subscription_plans and plan_benefits, and the
                 \* subscription handler in progress
    acct         \* users.is_active, and the activate / deactivate requests in progress

blogVars == <<db, media, pool, req, started, faultsLeft, cfg, log, last, subs, acct>>
vars == <<db, media, pool, req, started, faultsLeft, cfg, log, last, agg, subs, acct>>


(***************************************************************************)
(* The tables.  blog_likes, blog_comments and blog_shares are kept as the  *)
(* number of rows per key: the handlers only insert, delete by key and     *)
(* count them.  blog_images keeps its rows per blog in insertion order.    *)
(***************************************************************************)
NoBlogRow == [exists |-> FALSE, slug |-> "", title |-> "", featured |-> NullStr, likes_count |-> 0]

EmptyDb ==
    [ blogs |-> [b \in BlogIds |-> NoBlogRow],
      blog_images |-> [b \in BlogIds |-> <<>>],
      blog_likes |-> [p \in Users \X BlogIds |-> 0],
      blog_comments |-> [b \in BlogIds |-> 0],
      blog_shares |-> [b \in BlogIds |-> 0],
      next_id |-> 1 ]

RECURSIVE SumOver(_, _)
SumOver(S, f) ==
    IF S = {} THEN 0
    ELSE LET x == CHOOSE y \in S : TRUE IN f[x] + SumOver(S \ {x}, f)

\* SELECT COUNT(*) FROM blog_likes WHERE blog_id = b
CountLikes(d, b) == SumOver({p \in Users \X BlogIds : p[2] = b}, d.blog_likes)

\* The blog_likes rows of blog b, as the checks count them.
LikeRows(d, b) == SumOver({<<u, b>> : u \in Users}, d.blog_likes)

(***************************************************************************)
(* Requests.  A slot holds the handler's position (pc) and its locals.     *)
(*   conn      the checked-out connection: held, transaction open, writes  *)
(*   pre       the tables when the request started (kept for the checks)   *)
(*   acquired, released, destroys, issued: what the request has done       *)
(*   base      the tables when the request began its own statements        *)
(*   faults0   faultsLeft when the request started                         *)
(***************************************************************************)
NoConn == [held |-> FALSE, tx |-> FALSE, writes |-> <<>>, closed |-> FALSE, snap |-> <<>>]
NoBody == [slug |-> "", title |-> "", featured |-> NullStr,
           has |-> {}, images |-> <<>>, imagesGiven |-> FALSE, imagesParse |-> TRUE]

Idle ==
    [ kind |-> "idle", pc |-> "idle", user |-> 0, blog |-> 0, body |-> NoBody,
      conn |-> NoConn, hasLike |-> FALSE, liked |-> FALSE, count |-> 0, i |-> 0,
      pids |-> <<>>, images |-> <<>>, featured |-> NullStr, old |-> NullStr, err |-> "",
      acquired |-> 0, released |-> 0, releasedOpen |-> FALSE, destroys |-> 0,
      issued |-> 0, pre |-> EmptyDb, base |-> EmptyDb, faults0 |-> 0 ]

NewRequest(kind, pc, user, blog, body) ==
    [Idle EXCEPT !.kind = kind, !.pc = pc, !.user = user, !.blog = blog,
                 !.body = body, !.pre = db, !.base = db, !.faults0 = faultsLeft]

\* What the log keeps of a request that ended with response `status`
\* (0: the handler ended without sending a response).
Summary(r, status, d) ==
    [ kind |-> r.kind, user |-> r.user, blog |-> r.blog, status |-> status,
      liked |-> r.liked, likes_count |-> r.count,
      prior |-> IF r.blog \in BlogIds /\ r.user \in Users
                THEN r.pre.blog_likes[<<r.user, r.blog>>] ELSE 0,
      pairAfter |-> IF r.blog \in BlogIds /\ r.user \in Users
                    THEN d.blog_likes[<<r.user, r.blog>>] ELSE 0,
      rowsAtEnd |-> IF r.blog \in BlogIds THEN LikeRows(d, r.blog) ELSE 0,
      existed |-> r.blog \in BlogIds /\ r.pre.blogs[r.blog].exists,
      sent |-> r.body.images, returned |-> r.images ]

\* What `last` keeps of a request that has ended.
Outcome(r, status) ==
    [ kind |-> r.kind, status |-> status, blog |-> r.blog, issued |-> r.issued,
      acquired |-> r.acquired, released |-> r.released, releasedOpen |-> r.releasedOpen,
      destroys |-> r.destroys ]

Active == {s \in Slots : req[s].kind # "idle"}
CanStart(s) == req[s].kind = "idle" /\ started < MaxRequests /\ Cardinality(Active) < cfg.maxActive

\* The outcomes of one database or media call: it succeeds, or (while the
\* environment may still inject a failure) it throws.
Outcomes == IF faultsLeft > 0 THEN {TRUE, FALSE} ELSE {TRUE}
Spend(ok) == faultsLeft' = IF ok THEN faultsLeft ELSE faultsLeft - 1

Goto(s, r) == req' = [req EXCEPT ![s] = r] /\ UNCHANGED <<log, last>>
\* The handler of slot s ends: r is its final record, d the tables it leaves.
End(s, r, status, d) ==
    /\ req' = [req EXCEPT ![s] = Idle]
    /\ last' = Outcome(r, status)
    /\ log' = IF cfg.keepLog THEN Append(log, Summary(r, status, d)) ELSE log

AggIdle == [pc |-> "idle"]

\* What every specification starts from, whatever the tables hold.
\* No users, plans or benefits, and no subscription request.
NoSubs ==
    [users |-> <<>>, plans |-> <<>>, planIds |-> {}, benefits |-> <<>>, benefitIds |-> {},
     started |-> 0, call |-> [pc |-> "idle", kind |-> "none"]]

\* No users and no activate / deactivate request.
NoAcct == [active |-> <<>>, calls |-> <<>>, started |-> 0, maxActive |-> 0, faults |-> FALSE]

InitCommon ==
    /\ subs = NoSubs
    /\ acct = NoAcct
    /\ media = PublicIds
    /\ pool = [idle |-> <<>>, created |-> 0]
    /\ req = [s \in Slots |-> Idle]
    /\ started = 0
    /\ log = <<>>
    /\ last = Outcome(Idle, 0)

(***************************************************************************)
(* likeBlog (blog.controller.js 1335-1389).  Every statement goes through  *)
(* db.query: autocommit, no transaction.                                   *)
(***************************************************************************)
\* A toggle that only ever inserts (the DELETE branch lost).
LikeToggleInsertOnly(d, u, b, hasLike) ==
    [d EXCEPT !.blog_likes[<<u, b>>] = @ + 1]
\* The write of the toggle: DELETE the pair's rows if the SELECT found one, else INSERT one.
LikeToggle(d, u, b, hasLike) ==
    [d EXCEPT !.blog_likes[<<u, b>>] = IF hasLike THEN 0 ELSE @ + 1]

\* UPDATE blogs SET likes_count = n WHERE id = b
SetLikesCount(d, b, n) ==
    IF d.blogs[b].exists THEN [d EXCEPT !.blogs[b].likes_count = n] ELSE d

StartLikeBlog(s) ==
    /\ CanStart(s)
    /\ started' = started + 1
    /\ \E u \in Users, b \in BlogIds \cup {InvalidId} :
        LET r == NewRequest("likeBlog", "selectBlog", u, b, NoBody) IN
        /\ cfg.sameUser \/ \A t \in Active : req[t].user # u
        /\ IF b = InvalidId
           THEN End(s, r, 400, db)
           ELSE Goto(s, r)
    /\ UNCHANGED <<db, media, pool, faultsLeft, cfg, agg, subs, acct>>

LikeSelectBlog(s) ==
    /\ req[s].kind = "likeBlog" /\ req[s].pc = "selectBlog"
    /\ \E ok \in Outcomes :
        /\ Spend(ok)
        /\ IF ~ok THEN End(s, req[s], 500, db)
           ELSE IF ~db.blogs[req[s].blog].exists THEN End(s, req[s], 404, db)
           ELSE Goto(s, [req[s] EXCEPT !.pc = "selectLike"])
    /\ UNCHANGED <<db, media, pool, started, cfg, agg, subs, acct>>

LikeSelectLike(s) ==
    /\ req[s].kind = "likeBlog" /\ req[s].pc = "selectLike"
    /\ \E ok \in Outcomes :
        /\ Spend(ok)
        /\ IF ~ok THEN End(s, req[s], 500, db)
           ELSE Goto(s, [req[s] EXCEPT !.pc = "write",
                    !.hasLike = db.blog_likes[<<req[s].user, req[s].blog>>] > 0])
    /\ UNCHANGED <<db, media, pool, started, cfg, agg, subs, acct>>

LikeWrite(s) ==
    /\ req[s].kind = "likeBlog" /\ req[s].pc = "write"
    /\ \E ok \in Outcomes :
        /\ Spend(ok)
        /\ IF ~ok THEN End(s, req[s], 500, db) /\ UNCHANGED db
           ELSE /\ db' = LikeToggle(db, req[s].user, req[s].blog, req[s].hasLike)
                /\ Goto(s, [req[s] EXCEPT !.pc = "count", !.liked = ~req[s].hasLike])
    /\ UNCHANGED <<media, pool, started, cfg, agg, subs, acct>>

LikeCount(s) ==
    /\ req[s].kind = "likeBlog" /\ req[s].pc = "count"
    /\ \E ok \in Outcomes :
        /\ Spend(ok)
        /\ IF ~ok THEN End(s, req[s], 500, db)
           ELSE Goto(s, [req[s] EXCEPT !.pc = "update", !.count = CountLikes(db, req[s].blog)])
    /\ UNCHANGED <<db, media, pool, started, cfg, agg, subs, acct>>

LikeUpdate(s) ==
    /\ req[s].kind = "likeBlog" /\ req[s].pc = "update"
    /\ \E ok \in Outcomes :
        /\ Spend(ok)
        /\ IF ~ok THEN End(s, req[s], 500, db) /\ UNCHANGED db
           ELSE /\ db' = SetLikesCount(db, req[s].blog, req[s].count)
                /\ End(s, req[s], 200, db')
    /\ UNCHANGED <<media, pool, started, cfg, agg, subs, acct>>

LikeStep(s) ==
    \/ LikeSelectBlog(s) \/ LikeSelectLike(s) \/ LikeWrite(s) \/ LikeCount(s) \/ LikeUpdate(s)

(***************************************************************************)
(* Transactions.  A statement issued on a connection whose transaction is  *)
(* open joins the connection's write list; the other statements of that    *)
(* connection see the tables with the list applied.  COMMIT applies the    *)
(* list to the tables, ROLLBACK drops it.                                  *)
(***************************************************************************)
BadItem == "<bad>"      \* an element of an images array that is null, so destructuring it throws

Write(op, b) ==
    [op |-> op, blog |-> b, slug |-> "", title |-> "", featured |-> NullStr,
     has |-> {}, public_id |-> "", position |-> 0]

ApplyWrite(d, w) ==
    CASE w.op = "insertBlog" ->
            [d EXCEPT !.blogs[w.blog] = [exists |-> TRUE, slug |-> w.slug, title |-> w.title,
                                         featured |-> w.featured, likes_count |-> 0]]
      [] w.op = "updateBlog" ->
            IF ~d.blogs[w.blog].exists THEN d
            ELSE [d EXCEPT !.blogs[w.blog] =
                    [@ EXCEPT !.slug = IF "slug" \in w.has THEN w.slug ELSE @,
                              !.title = IF "title" \in w.has THEN w.title ELSE @,
                              !.featured = IF "featured" \in w.has THEN w.featured ELSE @]]
      [] w.op = "insertImage" ->
            [d EXCEPT !.blog_images[w.blog] =
                Append(@, [public_id |-> w.public_id, position |-> w.position])]
      [] w.op = "deleteImages" -> [d EXCEPT !.blog_images[w.blog] = <<>>]
      [] w.op = "deleteComments" -> [d EXCEPT !.blog_comments[w.blog] = 0]
      [] w.op = "deleteLikes" ->
            [d EXCEPT !.blog_likes = [p \in Users \X BlogIds |-> IF p[2] = w.blog THEN 0 ELSE @[p]]]
      [] w.op = "deleteShares" -> [d EXCEPT !.blog_shares[w.blog] = 0]
      [] w.op = "deleteBlog" -> [d EXCEPT !.blogs[w.blog] = NoBlogRow]
      [] OTHER -> d

RECURSIVE ApplyAll(_, _)
ApplyAll(d, ws) == IF ws = <<>> THEN d ELSE ApplyAll(ApplyWrite(d, Head(ws)), Tail(ws))

\* The tables as a locking statement (INSERT, UPDATE, DELETE, a unique-key
\* check) of request r's connection sees them: the committed rows and the
\* connection's own pending writes.
Current(r) == ApplyAll(db, r.conn.writes)

\* The tables as a plain SELECT of request r's connection sees them.  The
\* pool sets no isolation level (db.js), so the server's default applies:
\* inside an open transaction every SELECT reads the snapshot taken by the
\* transaction's first SELECT, plus the connection's own pending writes.
View(r) == ApplyAll(IF r.conn.tx /\ r.conn.snap # <<>> THEN r.conn.snap[1] ELSE db, r.conn.writes)

\* Request r after a SELECT on its connection: the first SELECT of an open
\* transaction takes the snapshot.
Reading(r) ==
    IF r.conn.tx /\ r.conn.snap = <<>> THEN [r EXCEPT !.conn.snap = <<db>>] ELSE r

\* Request r issues write w on its connection: inside a transaction it is
\* pending, otherwise (autocommit) it reaches the tables at once.
Issue(r, w) ==
    IF r.conn.tx THEN [r EXCEPT !.conn.writes = Append(@, w), !.issued = @ + 1]
    ELSE [r EXCEPT !.issued = @ + 1]
DbAfter(r, w) == IF r.conn.tx THEN db ELSE ApplyWrite(db, w)

(***************************************************************************)
(* The pool (db.js): getConnection hands out an idle connection, or a new  *)
(* one while fewer than connectionLimit exist; release() puts the          *)
(* connection back as it is, an open transaction included.                 *)
(***************************************************************************)
FreshConn == [held |-> TRUE, tx |-> FALSE, writes |-> <<>>, closed |-> FALSE, snap |-> <<>>]

RemoveAt(q, k) == [j \in 1..(Len(q) - 1) |-> IF j < k THEN q[j] ELSE q[j + 1]]

ReleaseTo(p, c) ==
    IF c.closed THEN [p EXCEPT !.created = @ - 1]
    ELSE [p EXCEPT !.idle = Append(@, [tx |-> c.tx, writes |-> c.writes, snap |-> c.snap])]

\* The handler leaves through its finally block: connection.release(), once.
Released(r) ==
    [r EXCEPT !.released = @ + 1, !.releasedOpen = r.conn.tx /\ ~r.conn.closed]

\* A handler that forgets the finally block's release.
FinallyNoRelease(s, r, status, d) ==
    /\ pool' = pool
    /\ End(s, r, status, d)
Finally(s, r, status, d) ==
    /\ pool' = ReleaseTo(pool, r.conn)
    /\ End(s, Released(r), status, d)

\* The handler's promise rejects outside try/finally: no response, no release.
Crash(s, r) ==
    /\ pool' = pool
    /\ End(s, r, 0, db)

IsConnKind(k) ==
    k \in {"createBlog", "updateBlog", "deleteBlog",
           "deleteMultipleImages", "deleteFeaturedImage", "getBlogById"}
IsTxKind(k) == k \in {"createBlog", "updateBlog", "deleteBlog"}

CanStartBlog(s) ==
    /\ req[s].kind = "idle"
    /\ started < MaxBlogRequests
    /\ Cardinality(Active) < cfg.maxActive

\* const connection = await db.getConnection();
GetConnection(s) ==
    /\ IsConnKind(req[s].kind) /\ req[s].pc = "getConnection"
    /\ \E ok \in Outcomes :
        /\ Spend(ok)
        /\ IF ~ok THEN Crash(s, req[s])
           ELSE \E k \in 0..Len(pool.idle) :
                /\ IF Len(pool.idle) = 0
                   THEN k = 0 /\ pool.created < connectionLimit
                   ELSE k > 0
                /\ LET c == IF k = 0 THEN FreshConn
                            ELSE [FreshConn EXCEPT !.tx = pool.idle[k].tx,
                                                   !.writes = pool.idle[k].writes,
                                                   !.snap = pool.idle[k].snap]
                       r == [req[s] EXCEPT !.conn = c, !.acquired = @ + 1]
                       p == IF k = 0 THEN [pool EXCEPT !.created = @ + 1]
                            ELSE [pool EXCEPT !.idle = RemoveAt(@, k)]
                   IN  IF IsTxKind(r.kind) THEN pool' = p /\ Goto(s, [r EXCEPT !.pc = "begin"])
                       ELSE IF r.kind = "deleteMultipleImages" /\ r.blog = InvalidId
                       THEN /\ pool' = ReleaseTo(p, c)
                            /\ End(s, Released(r), 400, db)
                       ELSE IF r.kind = "deleteMultipleImages"
                       THEN pool' = p /\ Goto(s, [r EXCEPT !.pc = "selectImages"])
                       ELSE pool' = p /\ Goto(s, [r EXCEPT !.pc = "selectBlog"])
    /\ UNCHANGED <<db, media, started, cfg, agg, subs, acct>>


\* The connection after beginTransaction was skipped: statements stay autocommit.
NoTransaction(c) == c
\* The connection after `await connection.beginTransaction()` succeeded.
Began(c) == [c EXCEPT !.tx = TRUE, !.writes = <<>>, !.snap = <<>>]

\* await connection.beginTransaction(), outside the try block.  START
\* TRANSACTION first commits what an earlier user of the connection left open.
BeginTransaction(s) ==
    /\ IsTxKind(req[s].kind) /\ req[s].pc = "begin"
    /\ \E ok \in Outcomes :
        /\ Spend(ok)
        /\ IF ~ok THEN Crash(s, req[s]) /\ UNCHANGED db
           ELSE LET r == [req[s] EXCEPT !.conn = Began(@),
                                          !.base = ApplyAll(db, req[s].conn.writes)] IN
                /\ db' = ApplyAll(db, req[s].conn.writes)
                /\ IF r.kind = "createBlog"
                   THEN IF ~Truthy(r.body.title) \/ ~Truthy(r.body.slug)
                        THEN Finally(s, r, 400, db')
                        ELSE pool' = pool /\ Goto(s, [r EXCEPT !.pc = "insertBlog"])
                   ELSE IF r.kind = "updateBlog"
                   THEN pool' = pool /\ Goto(s, [r EXCEPT !.pc = "selectBlog"])
                   ELSE pool' = pool /\ Goto(s, [r EXCEPT !.pc = "selectImages"])
    /\ UNCHANGED <<media, started, cfg, agg, subs, acct>>

\* The images the handler loops over: createBlog falls back to [] when
\* JSON.parse throws (updateBlog does not catch it, see UpdateAfterFields).
CreateImages(body) == IF body.imagesGiven /\ body.imagesParse THEN body.images ELSE <<>>

\* Where the image loop goes for its i-th element.
NextImagePc(images, i, donePc) ==
    IF i > Len(images) THEN donePc
    ELSE IF images[i] = BadItem THEN "rollback"
    ELSE "insertImage"

(***************************************************************************)
(* createBlog (blog.controller.js 837-932)                                 *)
(***************************************************************************)
\* images is the parsed array; imagesParse = FALSE is a text JSON.parse rejects.
CreateBodies ==
    { [NoBody EXCEPT !.slug = sl, !.title = "t1", !.featured = f, !.images = im,
                     !.imagesGiven = (im # <<>>)] :
        sl \in Slugs, f \in {NullStr, "pa"},
        im \in {<<>>, <<"pa">>, <<"pa", "pb">>, <<"pb", BadItem>>} }
    \cup { [NoBody EXCEPT !.slug = "s2", !.title = "t1", !.imagesGiven = TRUE,
                          !.imagesParse = FALSE],
           [NoBody EXCEPT !.slug = "s2", !.title = "", !.images = <<"pa">>,
                          !.imagesGiven = TRUE] }

StartCreateBlog(s) ==
    /\ CanStartBlog(s)
    /\ db.next_id \in BlogIds
    /\ started' = started + 1
    /\ \E body \in CreateBodies :
        Goto(s, NewRequest("createBlog", "getConnection", 0, 0, body))
    /\ UNCHANGED <<db, media, pool, faultsLeft, cfg, agg, subs, acct>>

SlugTaken(d, slug) == \E b \in BlogIds : d.blogs[b].exists /\ d.blogs[b].slug = slug

\* const [result] = await connection.query(blogQuery, blogValues)
CreateInsertBlog(s) ==
    /\ req[s].kind = "createBlog" /\ req[s].pc = "insertBlog"
    /\ \E ok \in Outcomes :
        /\ Spend(ok)
        /\ LET r == req[s] IN
           IF ~ok THEN Goto(s, [r EXCEPT !.pc = "rollback", !.err = "other"]) /\ UNCHANGED db
           ELSE IF SlugTaken(Current(r), r.body.slug)
           THEN Goto(s, [r EXCEPT !.pc = "rollback", !.err = "ER_DUP_ENTRY"]) /\ UNCHANGED db
           ELSE LET id == db.next_id
                    w == [Write("insertBlog", id) EXCEPT
                            !.slug = r.body.slug, !.title = r.body.title,
                            !.featured = IF Truthy(r.body.featured) THEN r.body.featured ELSE ""]
                    r2 == [Issue(r, w) EXCEPT !.blog = id, !.i = 1]
                IN  /\ db' = [DbAfter(r, w) EXCEPT !.next_id = @ + 1]
                    /\ Goto(s, [r2 EXCEPT !.pc = NextImagePc(CreateImages(r.body), 1, "commit")])
    /\ UNCHANGED <<media, pool, started, cfg, agg, subs, acct>>

\* The images array of the request in slot s.
ImagesOf(r) == IF r.kind = "createBlog" THEN CreateImages(r.body) ELSE r.body.images
\* Where the handler goes once its image loop is over.
AfterImagesPc(r) ==
    IF r.kind = "updateBlog" /\ Truthy(r.old) THEN "destroyOld" ELSE "commit"

\* An image loop that numbers positions from 0.
ImagePositionFromZero(i) == i - 1
\* position of the i-th image (1-based i): `i + 1` of the 0-based loop index.
ImagePosition(i) == i

\* await connection.query(`INSERT INTO blog_images ...`, [blogId, url, public_id, i + 1])
InsertImage(s) ==
    /\ req[s].kind \in {"createBlog", "updateBlog"} /\ req[s].pc = "insertImage"
    /\ \E ok \in Outcomes :
        /\ Spend(ok)
        /\ LET r == req[s] IN
           IF ~ok THEN Goto(s, [r EXCEPT !.pc = "rollback", !.err = "other"]) /\ UNCHANGED db
           ELSE LET w == [Write("insertImage", r.blog) EXCEPT
                            !.public_id = ImagesOf(r)[r.i], !.position = ImagePosition(r.i)]
                    r2 == [Issue(r, w) EXCEPT !.i = r.i + 1]
                IN  /\ db' = DbAfter(r, w)
                    /\ Goto(s, [r2 EXCEPT !.pc = NextImagePc(ImagesOf(r), r.i + 1, AfterImagesPc(r))])
    /\ UNCHANGED <<media, pool, started, cfg, agg, subs, acct>>

\* The status of the success response.
OkStatus(kind) == IF kind = "createBlog" THEN 201 ELSE 200
\* The status the catch block answers with.
CatchStatus(r) == IF r.kind = "createBlog" /\ r.err = "ER_DUP_ENTRY" THEN 400 ELSE 500

\* await connection.commit(), then the success response and the finally block
Commit(s) ==
    /\ IsTxKind(req[s].kind) /\ req[s].pc = "commit"
    /\ \E ok \in Outcomes :
        /\ Spend(ok)
        /\ LET r == req[s] IN
           IF ~ok
           THEN /\ Goto(s, [r EXCEPT !.pc = "rollback", !.err = "other"])
                /\ UNCHANGED <<db, pool>>
           ELSE /\ db' = ApplyAll(db, r.conn.writes)
                /\ Finally(s, [r EXCEPT !.conn.tx = FALSE, !.conn.writes = <<>>, !.conn.snap = <<>>], OkStatus(r.kind), db')
    /\ UNCHANGED <<media, started, cfg, agg, subs, acct>>

\* catch: await connection.rollback(), the error response, the finally block.
\* A ROLLBACK that fails has lost the connection: the server drops the
\* transaction, the pool drops the connection, and the error leaves the
\* catch block before any response is sent.
Rollback(s) ==
    /\ IsTxKind(req[s].kind) /\ req[s].pc = "rollback"
    /\ \E ok \in (IF req[s].conn.closed THEN {FALSE} ELSE Outcomes) :
        /\ IF req[s].conn.closed THEN faultsLeft' = faultsLeft ELSE Spend(ok)
        /\ LET r == req[s] IN
           IF ok
           THEN Finally(s, [r EXCEPT !.conn.tx = FALSE, !.conn.writes = <<>>, !.conn.snap = <<>>], CatchStatus(r), db)
           ELSE Finally(s, [r EXCEPT !.conn.tx = FALSE, !.conn.writes = <<>>, !.conn.snap = <<>>, !.conn.closed = TRUE], 0, db)
    /\ UNCHANGED <<db, media, started, cfg, agg, subs, acct>>

(***************************************************************************)
(* updateBlog (blog.controller.js 1028-1130)                               *)
(***************************************************************************)
\* has: the updatable fields the body holds; imagesGiven: req.body.images is truthy.
UpdateBodies ==
    { [NoBody EXCEPT !.has = h, !.slug = "s2", !.title = "t2", !.featured = "pb",
                     !.images = im[1], !.imagesGiven = im[2], !.imagesParse = im[3]] :
        h \in {{}, {"title"}, {"slug"}, {"featured"}, {"title", "featured"}},
        im \in { <<<<>>, FALSE, TRUE>>, <<<<>>, TRUE, TRUE>>, <<<<"pb">>, TRUE, TRUE>>,
                 <<<<"pb", "pa">>, TRUE, TRUE>>, <<<<"pa", BadItem>>, TRUE, TRUE>>,
                 <<<<>>, TRUE, FALSE>> } }

StartUpdateBlog(s) ==
    /\ CanStartBlog(s)
    /\ started' = started + 1
    /\ \E b \in BlogIds, body \in UpdateBodies :
        Goto(s, NewRequest("updateBlog", "getConnection", 0, b, body))
    /\ UNCHANGED <<db, media, pool, faultsLeft, cfg, agg, subs, acct>>

\* After the field UPDATE: JSON.parse of a text images field is not caught here.
UpdateAfterFieldsPc(r) ==
    IF r.body.imagesGiven
    THEN (IF r.body.imagesParse THEN "deleteImages" ELSE "rollback")
    ELSE AfterImagesPc(r)

\* SELECT * FROM blogs WHERE id = ?, the 404 return, the loop over updatableFields
UpdateSelectBlog(s) ==
    /\ req[s].kind = "updateBlog" /\ req[s].pc = "selectBlog"
    /\ \E ok \in Outcomes :
        /\ Spend(ok)
        /\ LET r == IF ok THEN Reading(req[s]) ELSE req[s]
               existing == View(r).blogs[r.blog] IN
           IF ~ok THEN pool' = pool /\ Goto(s, [r EXCEPT !.pc = "rollback", !.err = "other"])
           ELSE IF ~existing.exists THEN Finally(s, r, 404, db)
           ELSE LET r2 == [r EXCEPT !.old =
                            IF "featured" \in r.body.has /\ r.body.featured # existing.featured
                            THEN existing.featured ELSE NullStr]
                IN  /\ pool' = pool
                    /\ Goto(s, [r2 EXCEPT !.pc = IF r.body.has # {} THEN "updateFields"
                                                 ELSE UpdateAfterFieldsPc(r2)])
    /\ UNCHANGED <<db, media, started, cfg, agg, subs, acct>>

\* The field UPDATE sent through the pool (db.query): committed at once.
UpdateFieldsViaPool(r, w) == ApplyWrite(db, w)
\* await connection.query(query, values): the UPDATE runs on the transaction's connection.
UpdateFieldsDb(r, w) == DbAfter(r, w)

\* UPDATE blogs SET <fields> WHERE id = ?
UpdateFields(s) ==
    /\ req[s].kind = "updateBlog" /\ req[s].pc = "updateFields"
    /\ \E ok \in Outcomes :
        /\ Spend(ok)
        /\ LET r == req[s]
               v == Current(r)
               dup == /\ "slug" \in r.body.has
                      /\ \E b \in BlogIds \ {r.blog} : v.blogs[b].exists /\ v.blogs[b].slug = r.body.slug
               w == [Write("updateBlog", r.blog) EXCEPT !.has = r.body.has, !.slug = r.body.slug,
                        !.title = r.body.title, !.featured = r.body.featured]
           IN
           IF ~ok THEN Goto(s, [r EXCEPT !.pc = "rollback", !.err = "other"]) /\ UNCHANGED db
           ELSE IF dup THEN Goto(s, [r EXCEPT !.pc = "rollback", !.err = "ER_DUP_ENTRY"]) /\ UNCHANGED db
           ELSE /\ db' = UpdateFieldsDb(r, w)
                /\ Goto(s, [Issue(r, w) EXCEPT !.pc = UpdateAfterFieldsPc(r)])
    /\ UNCHANGED <<media, pool, started, cfg, agg, subs, acct>>

\* DELETE FROM blog_images WHERE blog_id = ?  (the old image set)
UpdateDeleteImages(s) ==
    /\ req[s].kind = "updateBlog" /\ req[s].pc = "deleteImages"
    /\ \E ok \in Outcomes :
        /\ Spend(ok)
        /\ LET r == req[s]
               w == Write("deleteImages", r.blog) IN
           IF ~ok THEN Goto(s, [r EXCEPT !.pc = "rollback", !.err = "other"]) /\ UNCHANGED db
           ELSE /\ db' = DbAfter(r, w)
                /\ Goto(s, [Issue(r, w) EXCEPT !.i = 1,
                                !.pc = NextImagePc(r.body.images, 1, AfterImagesPc(r))])
    /\ UNCHANGED <<media, pool, started, cfg, agg, subs, acct>>

\* cloudinary.uploader.destroy(oldImagePublicId) in its own try/catch
UpdateDestroyOld(s) ==
    /\ req[s].kind = "updateBlog" /\ req[s].pc = "destroyOld"
    /\ \E ok \in Outcomes :
        /\ Spend(ok)
        /\ media' = IF ok THEN media \ {req[s].old} ELSE media
        /\ Goto(s, [req[s] EXCEPT !.destroys = @ + 1, !.pc = "commit"])
    /\ UNCHANGED <<db, pool, started, cfg, agg, subs, acct>>

(***************************************************************************)
(* deleteBlog (blog.controller.js 1197-1263)                               *)
(***************************************************************************)
StartDeleteBlog(s) ==
    /\ CanStartBlog(s)
    /\ started' = started + 1
    /\ \E b \in BlogIds :
        Goto(s, NewRequest("deleteBlog", "getConnection", 0, b, NoBody))
    /\ UNCHANGED <<db, media, pool, faultsLeft, cfg, agg, subs, acct>>

\* imagesResult.map(row => row.image_public_id).filter(Boolean)
PublicIdsOf(images) ==
    LET all == [k \in 1..Len(images) |-> images[k].public_id]
    IN  SelectSeq(all, Truthy)

\* Step 1: the two SELECTs
DeleteSelectImages(s) ==
    /\ req[s].kind = "deleteBlog" /\ req[s].pc = "selectImages"
    /\ \E ok \in Outcomes :
        /\ Spend(ok)
        /\ LET r == IF ok THEN Reading(req[s]) ELSE req[s] IN
           IF ~ok THEN Goto(s, [r EXCEPT !.pc = "rollback", !.err = "other"])
           ELSE Goto(s, [r EXCEPT !.pc = "selectFeatured",
                                  !.pids = PublicIdsOf(View(r).blog_images[r.blog])])
    /\ UNCHANGED <<db, media, pool, started, cfg, agg, subs, acct>>

DeleteSelectFeatured(s) ==
    /\ req[s].kind = "deleteBlog" /\ req[s].pc = "selectFeatured"
    /\ \E ok \in Outcomes :
        /\ Spend(ok)
        /\ LET r == IF ok THEN Reading(req[s]) ELSE req[s]
               row == View(r).blogs[r.blog] IN
           IF ~ok THEN Goto(s, [r EXCEPT !.pc = "rollback", !.err = "other"])
           ELSE Goto(s, [r EXCEPT !.pc = "deleteComments",
                                  !.featured = IF row.exists THEN row.featured ELSE NullStr])
    /\ UNCHANGED <<db, media, pool, started, cfg, agg, subs, acct>>

\* Step 2: the DELETEs of the dependent tables, in the code's order
ChildDeletes == <<"deleteComments", "deleteLikes", "deleteShares", "deleteImages", "deleteBlog">>
NextChildDelete(pc) == ChildDeletes[(CHOOSE k \in 1..4 : ChildDeletes[k] = pc) + 1]

DeleteChildren(s) ==
    /\ req[s].kind = "deleteBlog"
    /\ req[s].pc \in {"deleteComments", "deleteLikes", "deleteShares", "deleteImages"}
    /\ \E ok \in Outcomes :
        /\ Spend(ok)
        /\ LET r == req[s]
               w == Write(r.pc, r.blog) IN
           IF ~ok THEN Goto(s, [r EXCEPT !.pc = "rollback", !.err = "other"]) /\ UNCHANGED db
           ELSE /\ db' = DbAfter(r, w)
                /\ Goto(s, [Issue(r, w) EXCEPT !.pc = NextChildDelete(r.pc)])
    /\ UNCHANGED <<media, pool, started, cfg, agg, subs, acct>>

\* Where deleteBlog goes after a media call (or after the DELETE of the blog row).
\* i = 0: the blog row was just deleted; i >= 1: the i-th image id is next.
DeleteMediaPc(r, i) ==
    IF i = 0 /\ Truthy(r.featured) THEN "destroyFeatured"
    ELSE IF (IF i = 0 THEN 1 ELSE i) <= Len(r.pids) THEN "destroyImage"
    ELSE "commit"

\* The affectedRows check left out: the handler goes on to the media calls.
AfterDeleteRowPcNoCheck(r, found) == DeleteMediaPc(r, 0)
\* if (deleteBlogResult.affectedRows === 0) { rollback; 404 }, else Step 4
AfterDeleteRowPc(r, found) == IF ~found THEN "rollback404" ELSE DeleteMediaPc(r, 0)

\* Step 3: DELETE FROM blogs WHERE id = ?, and the affectedRows === 0 branch
DeleteBlogRow(s) ==
    /\ req[s].kind = "deleteBlog" /\ req[s].pc = "deleteBlog"
    /\ \E ok \in Outcomes :
        /\ Spend(ok)
        /\ LET r == req[s]
               w == Write("deleteBlog", r.blog) IN
           IF ~ok THEN Goto(s, [r EXCEPT !.pc = "rollback", !.err = "other"]) /\ UNCHANGED db
           ELSE /\ db' = DbAfter(r, w)
                /\ Goto(s, [Issue(r, w) EXCEPT !.i = 1,
                        !.pc = AfterDeleteRowPc(r, Current(r).blogs[r.blog].exists)])
    /\ UNCHANGED <<media, pool, started, cfg, agg, subs, acct>>

\* await connection.rollback(); return res.status(404)  (inside the try block)
DeleteRollback404(s) ==
    /\ req[s].kind = "deleteBlog" /\ req[s].pc = "rollback404"
    /\ \E ok \in Outcomes :
        /\ Spend(ok)
        /\ LET r == req[s] IN
           IF ok THEN Finally(s, [r EXCEPT !.conn.tx = FALSE, !.conn.writes = <<>>, !.conn.snap = <<>>], 404, db)
           ELSE /\ pool' = pool
                /\ Goto(s, [r EXCEPT !.pc = "rollback", !.err = "other", !.conn.tx = FALSE,
                                     !.conn.writes = <<>>, !.conn.closed = TRUE])
    /\ UNCHANGED <<db, media, started, cfg, agg, subs, acct>>

\* Step 4: await cloudinary.uploader.destroy(featuredImagePublicId), before the commit
DeleteDestroyFeatured(s) ==
    /\ req[s].kind = "deleteBlog" /\ req[s].pc = "destroyFeatured"
    /\ \E ok \in Outcomes :
        /\ Spend(ok)
        /\ LET r == [req[s] EXCEPT !.destroys = @ + 1] IN
           IF ~ok THEN Goto(s, [r EXCEPT !.pc = "rollback", !.err = "media"]) /\ UNCHANGED media
           ELSE /\ media' = media \ {r.featured}
                /\ Goto(s, [r EXCEPT !.pc = DeleteMediaPc(r, 1)])
    /\ UNCHANGED <<db, pool, started, cfg, agg, subs, acct>>

\* for (const publicId of imagePublicIds) await cloudinary.uploader.destroy(publicId)
DeleteDestroyImage(s) ==
    /\ req[s].kind = "deleteBlog" /\ req[s].pc = "destroyImage"
    /\ \E ok \in Outcomes :
        /\ Spend(ok)
        /\ LET r == [req[s] EXCEPT !.destroys = @ + 1] IN
           IF ~ok THEN Goto(s, [r EXCEPT !.pc = "rollback", !.err = "media"]) /\ UNCHANGED media
           ELSE /\ media' = media \ {r.pids[r.i]}
                /\ Goto(s, [r EXCEPT !.i = r.i + 1, !.pc = DeleteMediaPc(r, r.i + 1)])
    /\ UNCHANGED <<db, pool, started, cfg, agg, subs, acct>>

(***************************************************************************)
(* deleteMultipleImages (565-610), deleteFeaturedImage (677-729) and       *)
(* getBlogById (2065-2102): a pooled connection, no transaction.  Their    *)
(* catch blocks answer 500 without awaiting anything.                      *)
(***************************************************************************)
StartDeleteMultipleImages(s) ==
    /\ CanStartBlog(s)
    /\ started' = started + 1
    /\ \E b \in BlogIds \cup {InvalidId} :
        Goto(s, NewRequest("deleteMultipleImages", "getConnection", 0, b, NoBody))
    /\ UNCHANGED <<db, media, pool, faultsLeft, cfg, agg, subs, acct>>

DmiSelectImages(s) ==
    /\ req[s].kind = "deleteMultipleImages" /\ req[s].pc = "selectImages"
    /\ \E ok \in Outcomes :
        /\ Spend(ok)
        /\ LET r == IF ok THEN Reading(req[s]) ELSE req[s]
               images == View(r).blog_images[r.blog] IN
           IF ~ok THEN Finally(s, r, 500, db)
           ELSE IF Len(images) = 0 THEN Finally(s, r, 404, db)
           ELSE /\ pool' = pool
                /\ Goto(s, [r EXCEPT !.pc = "destroyImage", !.i = 1,
                               !.pids = [k \in 1..Len(images) |-> images[k].public_id]])
    /\ UNCHANGED <<db, media, started, cfg, agg, subs, acct>>

\* each destroy in its own try/catch: a failure is logged and the loop goes on
DmiDestroyImage(s) ==
    /\ req[s].kind = "deleteMultipleImages" /\ req[s].pc = "destroyImage"
    /\ \E ok \in Outcomes :
        /\ Spend(ok)
        /\ LET r == req[s] IN
           /\ media' = IF ok THEN media \ {r.pids[r.i]} ELSE media
           /\ Goto(s, [r EXCEPT !.destroys = @ + 1, !.i = r.i + 1,
                          !.pc = IF r.i + 1 > Len(r.pids) THEN "deleteImages" ELSE "destroyImage"])
    /\ UNCHANGED <<db, pool, started, cfg, agg, subs, acct>>

DmiDeleteImages(s) ==
    /\ req[s].kind = "deleteMultipleImages" /\ req[s].pc = "deleteImages"
    /\ \E ok \in Outcomes :
        /\ Spend(ok)
        /\ LET r == req[s]
               w == Write("deleteImages", r.blog) IN
           IF ~ok THEN Finally(s, r, 500, db) /\ UNCHANGED db
           ELSE /\ db' = DbAfter(r, w)
                /\ Finally(s, Issue(r, w), 200, db')
    /\ UNCHANGED <<media, started, cfg, agg, subs, acct>>

StartDeleteFeaturedImage(s) ==
    /\ CanStartBlog(s)
    /\ started' = started + 1
    /\ \E b \in BlogIds :
        Goto(s, NewRequest("deleteFeaturedImage", "getConnection", 0, b, NoBody))
    /\ UNCHANGED <<db, media, pool, faultsLeft, cfg, agg, subs, acct>>

DfiSelectBlog(s) ==
    /\ req[s].kind = "deleteFeaturedImage" /\ req[s].pc = "selectBlog"
    /\ \E ok \in Outcomes :
        /\ Spend(ok)
        /\ LET r == IF ok THEN Reading(req[s]) ELSE req[s]
               row == View(r).blogs[r.blog] IN
           IF ~ok THEN Finally(s, r, 500, db)
           ELSE IF ~row.exists \/ ~Truthy(row.featured) THEN Finally(s, r, 404, db)
           ELSE pool' = pool /\ Goto(s, [r EXCEPT !.pc = "destroyFeatured", !.featured = row.featured])
    /\ UNCHANGED <<db, media, started, cfg, agg, subs, acct>>

\* destroy throws, or answers something other than "ok" / "not found": 500 either way
DfiDestroy(s) ==
    /\ req[s].kind = "deleteFeaturedImage" /\ req[s].pc = "destroyFeatured"
    /\ \E ok \in Outcomes :
        /\ Spend(ok)
        /\ LET r == [req[s] EXCEPT !.destroys = @ + 1] IN
           IF ~ok THEN Finally(s, r, 500, db) /\ UNCHANGED media
           ELSE /\ media' = media \ {r.featured}
                /\ pool' = pool
                /\ Goto(s, [r EXCEPT !.pc = "clearFeatured"])
    /\ UNCHANGED <<db, started, cfg, agg, subs, acct>>

DfiClearFeatured(s) ==
    /\ req[s].kind = "deleteFeaturedImage" /\ req[s].pc = "clearFeatured"
    /\ \E ok \in Outcomes :
        /\ Spend(ok)
        /\ LET r == req[s]
               w == [Write("updateBlog", r.blog) EXCEPT !.has = {"featured"}, !.featured = NullStr] IN
           IF ~ok THEN Finally(s, r, 500, db) /\ UNCHANGED db
           ELSE /\ db' = DbAfter(r, w)
                /\ Finally(s, Issue(r, w), 200, db')
    /\ UNCHANGED <<media, started, cfg, agg, subs, acct>>

StartGetBlogById(s) ==
    /\ CanStartBlog(s)
    /\ started' = started + 1
    /\ \E b \in BlogIds :
        Goto(s, NewRequest("getBlogById", "getConnection", 0, b, NoBody))
    /\ UNCHANGED <<db, media, pool, faultsLeft, cfg, agg, subs, acct>>

\* ORDER BY position ASC (rows of equal position keep their stored order)
RECURSIVE SortByPosition(_)
SortByPosition(images) ==
    IF Len(images) = 0 THEN <<>>
    ELSE LET k == CHOOSE j \in 1..Len(images) :
                    /\ \A m \in 1..Len(images) : images[j].position <= images[m].position
                    /\ \A m \in 1..(j - 1) : images[m].position > images[j].position
         IN  <<images[k]>> \o SortByPosition(RemoveAt(images, k))

GbSelectBlog(s) ==
    /\ req[s].kind = "getBlogById" /\ req[s].pc = "selectBlog"
    /\ \E ok \in Outcomes :
        /\ Spend(ok)
        /\ LET r == IF ok THEN Reading(req[s]) ELSE req[s] IN
           IF ~ok THEN Finally(s, r, 500, db)
           ELSE IF ~View(r).blogs[r.blog].exists THEN Finally(s, r, 404, db)
           ELSE pool' = pool /\ Goto(s, [r EXCEPT !.pc = "selectImages"])
    /\ UNCHANGED <<db, media, started, cfg, agg, subs, acct>>

GbSelectImages(s) ==
    /\ req[s].kind = "getBlogById" /\ req[s].pc = "selectImages"
    /\ \E ok \in Outcomes :
        /\ Spend(ok)
        /\ LET r == IF ok THEN Reading(req[s]) ELSE req[s]
               images == SortByPosition(View(r).blog_images[r.blog]) IN
           IF ~ok THEN Finally(s, r, 500, db)
           ELSE Finally(s, [r EXCEPT !.pids = [k \in 1..Len(images) |-> images[k].public_id],
                                     !.images = images], 200, db)
    /\ UNCHANGED <<db, media, started, cfg, agg, subs, acct>>

(***************************************************************************)
(* The requests on connections, run one at a time, calls may fail.         *)
(***************************************************************************)
ImageRows(pids) == [k \in 1..Len(pids) |-> [public_id |-> pids[k], position |-> k]]

\* Blog 1 exists with one comment, one share and one like, either with a
\* featured image and two images or with neither; blog 2 does not exist:
\* either its id was never given out, or it was given out and the blog is gone,
\* leaving an image row and a comment behind (AUTO_INCREMENT ids never return).
BlogDbs ==
    { [EmptyDb EXCEPT
         !.blogs[1] = [exists |-> TRUE, slug |-> "s1", title |-> "t1",
                       featured |-> x[1], likes_count |-> 1],
         !.blog_images[1] = ImageRows(x[2]),
         !.blog_images[2] = ImageRows(x[3]),
         !.blog_comments = [b \in BlogIds |-> IF b = 1 THEN 1 ELSE Len(x[3])],
         !.blog_shares[1] = 1,
         !.blog_likes[<<1, 1>>] = 1,
         !.next_id = IF x[3] = <<>> THEN 2 ELSE 3] :
        x \in { <<"pa", <<"pa", "pb">>, <<>>>>, <<NullStr, <<>>, <<"pb">>>>,
                <<"pb", <<"pa">>, <<"pb">>>> } }

InitBlog ==
    /\ InitCommon
    /\ agg = AggIdle
    /\ db \in BlogDbs
    /\ cfg = [maxActive |-> 1, sameUser |-> FALSE, keepLog |-> FALSE]
    /\ faultsLeft = MaxFaults

NextBlog ==
    \E s \in Slots :
        \/ StartCreateBlog(s) \/ StartUpdateBlog(s) \/ StartDeleteBlog(s)
        \/ StartDeleteMultipleImages(s) \/ StartDeleteFeaturedImage(s) \/ StartGetBlogById(s)
        \/ GetConnection(s) \/ BeginTransaction(s) \/ Commit(s) \/ Rollback(s)
        \/ CreateInsertBlog(s) \/ InsertImage(s)
        \/ UpdateSelectBlog(s) \/ UpdateFields(s) \/ UpdateDeleteImages(s) \/ UpdateDestroyOld(s)
        \/ DeleteSelectImages(s) \/ DeleteSelectFeatured(s) \/ DeleteChildren(s) \/ DeleteBlogRow(s)
        \/ DeleteRollback404(s) \/ DeleteDestroyFeatured(s) \/ DeleteDestroyImage(s)
        \/ DmiSelectImages(s) \/ DmiDestroyImage(s) \/ DmiDeleteImages(s)
        \/ DfiSelectBlog(s) \/ DfiDestroy(s) \/ DfiClearFeatured(s)
        \/ GbSelectBlog(s) \/ GbSelectImages(s)

SpecBlog == InitBlog /\ [][NextBlog]_vars

(***************************************************************************)
(* Properties of the requests on connections.                              *)
(***************************************************************************)
\* The request of slot s ends in this step.
Ends(s, kind) == req[s].kind = kind /\ req'[s].kind = "idle"
\* The tables the request's own statements started from: the tables at its
\* start, and once its transaction has begun the tables at that point (START
\* TRANSACTION commits what an earlier user of the connection left open).
\* In the step that ends a request at its beginTransaction, that call is the
\* step itself: it commits the connection's open writes unless it fails.
Baseline(r) ==
    IF r.pc = "begin" /\ faultsLeft' = faultsLeft THEN ApplyAll(db, r.conn.writes) ELSE r.base
SameRows(d, e) ==
    /\ d.blogs = e.blogs /\ d.blog_images = e.blog_images /\ d.blog_likes = e.blog_likes
    /\ d.blog_comments = e.blog_comments /\ d.blog_shares = e.blog_shares

\* C3: a request of createBlog, updateBlog, deleteBlog, deleteMultipleImages,
\* deleteFeaturedImage or getBlogById that has ended has released every
\* connection it checked out, exactly once, whatever failed.
C3_ReleasedOnce == IsConnKind(last.kind) => last.released = last.acquired

\* C4: when createBlog ends with 201 the new blog row and all images of the
\* request are in the tables, with positions 1..N; when it ends in any other
\* way neither the blog row nor any of its images is.
C4_CreateAtomic ==
    [][\A s \in Slots : Ends(s, "createBlog") =>
        LET r == req[s]
            base == Baseline(r)
            images == IF r.body.imagesGiven /\ r.body.imagesParse THEN r.body.images ELSE <<>>
        IN  IF last'.status = 201
            THEN /\ r.blog \in BlogIds /\ ~base.blogs[r.blog].exists
                 /\ db'.blogs = [base.blogs EXCEPT ![r.blog] =
                        [exists |-> TRUE, slug |-> r.body.slug, title |-> r.body.title,
                         featured |-> IF r.body.featured = NullStr THEN "" ELSE r.body.featured,
                         likes_count |-> 0]]
                 /\ db'.blog_images = [base.blog_images EXCEPT ![r.blog] =
                        @ \o [k \in 1..Len(images) |-> [public_id |-> images[k], position |-> k]]]
            ELSE db'.blogs = base.blogs /\ db'.blog_images = base.blog_images
      ]_vars

\* createBlog failed after the blog row and an image had been inserted, and
\* blog 2 (the id it would have taken) is not in the tables.
C4_Witness ==
    /\ last.kind = "createBlog" /\ last.status = 500 /\ last.issued >= 2
    /\ ~db.blogs[2].exists /\ db.next_id = 3

\* C5: when updateBlog ends with 200 the field update and the replacement of
\* the image set are both in the tables; when it ends in any other way the
\* blog rows and image rows are as before the request.
C5_UpdateAtomic ==
    [][\A s \in Slots : Ends(s, "updateBlog") =>
        LET r == req[s]
            base == Baseline(r)
            b == r.blog
            h == r.body.has
        IN  IF last'.status = 200
            THEN /\ db'.blogs = [base.blogs EXCEPT ![b] =
                        [@ EXCEPT !.slug = IF "slug" \in h THEN r.body.slug ELSE @,
                                  !.title = IF "title" \in h THEN r.body.title ELSE @,
                                  !.featured = IF "featured" \in h THEN r.body.featured ELSE @]]
                 /\ db'.blog_images = [base.blog_images EXCEPT ![b] =
                        IF r.body.imagesGiven
                        THEN [k \in 1..Len(r.body.images) |->
                                [public_id |-> r.body.images[k], position |-> k]]
                        ELSE @]
            ELSE db'.blogs = base.blogs /\ db'.blog_images = base.blog_images
      ]_vars

\* updateBlog of blog 1 answered 500 after its UPDATE (and more) had been
\* issued, and blog 1 still has its first title.
C5_Witness ==
    /\ last.kind = "updateBlog" /\ last.status = 500 /\ last.issued >= 1
    /\ last.blog = 1 /\ db.blogs[1].title = "t1"

\* C6: a deleteBlog of an existing blog in which a media deletion call failed
\* (and nothing else did) still deletes and commits the blog row and its
\* comment, like, share and image rows.
C6_MediaFailureDoesNotAbort ==
    [][\A s \in Slots :
        (Ends(s, "deleteBlog") /\ req[s].pre.blogs[req[s].blog].exists /\ req[s].err = "media") =>
            LET b == req[s].blog IN
            /\ ~db'.blogs[b].exists
            /\ db'.blog_images[b] = <<>> /\ db'.blog_comments[b] = 0 /\ db'.blog_shares[b] = 0
            /\ \A u \in Users : db'.blog_likes[<<u, b>>] = 0
      ]_vars

\* C7: deleteBlog of an id with no blogs row makes no media call and leaves
\* every table as before; it answers 404 unless one of its calls failed.
C7_DeleteMissing ==
    [][\A s \in Slots :
        (Ends(s, "deleteBlog") /\ ~Baseline(req[s]).blogs[req[s].blog].exists) =>
            /\ last'.destroys = 0
            /\ media' = media
            /\ SameRows(db', Baseline(req[s]))
            /\ (faultsLeft' = req[s].faults0 => last'.status = 404)
      ]_vars

\* deleteBlog of the missing blog 2 answered 404 after issuing its DELETEs,
\* and the image row and comment left behind for id 2 are still there.
C7_Witness ==
    /\ last.kind = "deleteBlog" /\ last.status = 404 /\ last.blog = 2 /\ last.issued >= 5
    /\ Len(db.blog_images[2]) = 1 /\ db.blog_comments[2] = 1

(***************************************************************************)
(* Initial states and specifications of the like toggle.                   *)
(***************************************************************************)
\* Blog 1 exists; user 1 has liked it or not, and likes_count agrees.
LikeDbs ==
    { [EmptyDb EXCEPT
         !.blogs[1] = [exists |-> TRUE, slug |-> "s1", title |-> "t1",
                       featured |-> NullStr, likes_count |-> n],
         !.blog_likes[<<1, 1>>] = n,
         !.next_id = 2] : n \in {0, 1} }

\* Overlapping like requests, every database call succeeding.
InitLike == InitCommon /\ agg = AggIdle /\ db \in LikeDbs /\ cfg = [maxActive |-> 2, sameUser |-> FALSE, keepLog |-> TRUE] /\ faultsLeft = 0
\* Like requests one after the other, database calls may fail.
InitLikeSeq == InitCommon /\ agg = AggIdle /\ db \in LikeDbs /\ cfg = [maxActive |-> 1, sameUser |-> FALSE, keepLog |-> TRUE] /\ faultsLeft = MaxFaults

NextLike == \E s \in Slots : StartLikeBlog(s) \/ LikeStep(s)

SpecLike == InitLike /\ [][NextLike]_vars
SpecLikeSeq == InitLikeSeq /\ [][NextLike]_vars

LikeInProgress(b) == \E s \in Slots : req[s].kind = "likeBlog" /\ req[s].blog = b

\* C1: whenever no likeBlog request on a blog is in progress, the blog's
\* likes_count equals the number of its blog_likes rows, also after like
\* requests of different users whose statements interleaved.
C1_LikesCountInSync ==
    \A b \in BlogIds :
        (db.blogs[b].exists /\ ~LikeInProgress(b)) => db.blogs[b].likes_count = LikeRows(db, b)

IsLike200(e) == e.kind = "likeBlog" /\ e.status = 200
\* Entries i < j of the log are consecutive requests of one user on one blog.
ConsecutiveLikes(i, j) ==
    /\ i < j
    /\ log[i].kind = "likeBlog" /\ log[j].kind = "likeBlog"
    /\ log[i].user = log[j].user /\ log[i].blog = log[j].blog
    /\ \A k \in (i + 1)..(j - 1) :
          ~(log[k].user = log[i].user /\ log[k].blog = log[i].blog)

\* C2: two likeBlog requests of one user on one blog, run one after the other
\* and both answered 200, leave the pair's rows as they were; the first answer's
\* liked flag negates the prior liked-state, the second's equals it, and each
\* answer's likes_count is the number of the blog's like rows at that moment.
C2_ToggleTwice ==
    \A i, j \in 1..Len(log) :
        (ConsecutiveLikes(i, j) /\ IsLike200(log[i]) /\ IsLike200(log[j])) =>
            /\ log[j].pairAfter = log[i].prior
            /\ log[i].liked = (log[i].prior = 0)
            /\ log[j].liked = (log[i].prior > 0)
            /\ log[i].likes_count = log[i].rowsAtEnd
            /\ log[j].likes_count = log[j].rowsAtEnd

\* Two consecutive answered toggles of a user who had liked the blog.
C2_Witness ==
    \E i, j \in 1..Len(log) :
        /\ ConsecutiveLikes(i, j) /\ IsLike200(log[i]) /\ IsLike200(log[j])
        /\ log[i].prior = 1 /\ log[j].likes_count = 1

(***************************************************************************)
(* getAllDoctorsWithPracticeDetails (hospitals.controller.js 222-438).     *)
(* Three queries, then three loops over their rows that build doctorsMap,  *)
(* then the response.  One step per loop iteration; the row an iteration   *)
(* handles is drawn when the iteration runs, which is the same as drawing  *)
(* the whole result first because no iteration looks ahead.  Of every      *)
(* object only the fields the loops compare are kept.                      *)
(***************************************************************************)
NULL == -1                            \* SQL NULL in an id or year column (a LEFT JOIN miss)
\* A test that takes every value as truthy.
TruthyAlways(x) == TRUE
\* JS truthiness of a numeric column: null and 0 are falsy.
TruthyId(x) == x # NULL /\ x # 0

DoctorIds == {1, 2}
\* Rows that vary in their ids; is_primary (a 0/1 column) is the same in all.
RowDomain ==
    { r \in [doctor_id : DoctorIds, doctor_practice_id : {1, 2}, clinic_id : {NULL, 1},
             hospital_id : {NULL, 1}, hospital_department_id : {NULL, 1, 2},
             schedule_id : {NULL, 1, 2}, is_primary : {1}] :
        (r.hospital_id = NULL) = (r.hospital_department_id = NULL) }
\* Rows that vary in is_primary too, over fewer ids.  A department row whose
\* hospital is missing gives hospital_id NULL with a department id; hospitals is
\* joined through hospital_departments, so the converse cannot happen.
FieldRowDomain ==
    { r \in [doctor_id : DoctorIds, doctor_practice_id : {1}, clinic_id : {NULL, 1},
             hospital_id : {NULL, 1}, hospital_department_id : {NULL, 1},
             schedule_id : {NULL, 1}, is_primary : {0, 1}] :
        r.hospital_id # NULL => r.hospital_department_id # NULL }
\* Rows of one doctor and one practice, with or without clinic 1 and department
\* 1 of hospital 1, that differ in is_primary.
FirstRowDomain ==
    { r \in [doctor_id : {1}, doctor_practice_id : {1}, clinic_id : {NULL, 1},
             hospital_id : {NULL, 1}, hospital_department_id : {NULL, 1},
             schedule_id : {NULL}, is_primary : {0, 1}] :
        (r.hospital_id = NULL) = (r.hospital_department_id = NULL) }
\* The rows a specification draws from, by the name its initial state gives.
RowsOf(name) ==
    IF name = "fields" THEN FieldRowDomain
    ELSE IF name = "first" THEN FirstRowDomain
    ELSE RowDomain
QualDomain ==
    [doctor_id : {1, 2, 3}, degree_name : {"MBBS", "MD"}, institution : {"AIIMS"},
     completion_year : {NULL, 2001}]
DocDomain ==
    [doctor_id : {1}, document_type : {"license"}, document_url : {"u1", "u2"},
     status : {"pending", "approved"}]

AggBegun == [pc |-> "rows", rows |-> <<>>, quals |-> <<>>, docs |-> <<>>, map |-> <<>>,
             status |-> 0, data |-> <<>>]

Least(S) == CHOOSE k \in S : \A m \in S : k <= m

\* doctorsMap.set(row.doctor_id, {...}): the new doctor object
NewDoctor(row) ==
    [doctor_id |-> row.doctor_id, qualifications |-> <<>>, documents |-> <<>>,
     clinics |-> <<>>, hospitals |-> <<>>, practices |-> <<>>]
\* A map that never reports a key as present.
MapHasNever(map, id) == FALSE
\* doctorsMap.has(id); the map is kept as the sequence of its values in insertion order
MapHas(map, id) == \E k \in 1..Len(map) : map[k].doctor_id = id
\* A map that puts a new key before the keys it holds.
MapSetFirst(map, doctor) == <<doctor>> \o map
\* doctorsMap.set(id, doctor) for a key the map does not hold: a Map keeps
\* its keys in insertion order
MapSet(map, doctor) == Append(map, doctor)
\* doctorsMap.get(id), as the position of the value
MapIndex(map, id) == Least({k \in 1..Len(map) : map[k].doctor_id = id})

\* doctor.practices.some(p => p.id === row.doctor_practice_id)
HasPractice(practices, id) == \E k \in 1..Len(practices) : practices[k].id = id
AddPractice(practices, row) ==
    IF HasPractice(practices, row.doctor_practice_id) THEN practices
    ELSE Append(practices, [id |-> row.doctor_practice_id, clinic_id |-> row.clinic_id,
                            hospital_department_id |-> row.hospital_department_id,
                            is_primary |-> TruthyId(row.is_primary)])

\* A schedule list that never reports an id as present.
HasScheduleNever(schedules, id) == FALSE
\* schedules.some(s => s.id === schedule.id)
HasSchedule(schedules, id) == \E k \in 1..Len(schedules) : schedules[k].id = id
\* if (schedule && !x.schedules.some(...)) x.schedules.push(schedule); schedule is NULL
\* when row.schedule_id is falsy
AddSchedule(schedules, schedule) ==
    IF schedule # NULL /\ ~HasSchedule(schedules, schedule)
    THEN Append(schedules, [id |-> schedule]) ELSE schedules

\* A clinic that is found takes the is_primary of the row that found it.
OverwriteFound(clinic, row) == [clinic EXCEPT !.is_primary = TruthyId(row.is_primary)]
\* if (!clinic) { ... }: a clinic that is found is used as it is
KeepFound(clinic, row) == clinic

\* The body of if (row.clinic_id) { ... }
AddClinic(clinics, row, schedule) ==
    LET found == {k \in 1..Len(clinics) : clinics[k].id = row.clinic_id}
        with == IF found = {}
                THEN Append(clinics, [id |-> row.clinic_id,
                                      is_primary |-> TruthyId(row.is_primary),
                                      schedules |-> <<>>])
                ELSE clinics
        k == IF found = {} THEN Len(with) ELSE Least(found)
        clinic == IF found = {} THEN with[k] ELSE KeepFound(with[k], row)
    IN  [with EXCEPT ![k] = [clinic EXCEPT !.schedules = AddSchedule(@, schedule)]]

\* h.hospital_id === row.hospital_id && h.department?.id === row.hospital_department_id
HospitalMatches(h, row) ==
    h.hospital_id = row.hospital_id /\ h.department = row.hospital_department_id
\* The body of if (row.hospital_id) { ... }
AddHospital(hospitals, row, schedule) ==
    LET found == {k \in 1..Len(hospitals) : HospitalMatches(hospitals[k], row)}
        with == IF found = {}
                THEN Append(hospitals, [hospital_id |-> row.hospital_id,
                                        department |-> row.hospital_department_id,
                                        is_primary |-> TruthyId(row.is_primary),
                                        schedules |-> <<>>])
                ELSE hospitals
        k == IF found = {} THEN Len(with) ELSE Least(found)
    IN  [with EXCEPT ![k].schedules = AddSchedule(@, schedule)]

\* One iteration of for (const row of rows)
ProcessRow(map, row) ==
    LET map1 == IF MapHas(map, row.doctor_id) THEN map ELSE MapSet(map, NewDoctor(row))
        k == MapIndex(map1, row.doctor_id)
        doctor == map1[k]
        schedule == IF TruthyId(row.schedule_id) THEN row.schedule_id ELSE NULL
    IN  [map1 EXCEPT ![k] =
            [doctor EXCEPT
                !.practices = AddPractice(@, row),
                !.clinics = IF TruthyId(row.clinic_id) THEN AddClinic(@, row, schedule) ELSE @,
                !.hospitals = IF TruthyId(row.hospital_id) THEN AddHospital(@, row, schedule) ELSE @]]

RECURSIVE ProcessRows(_, _)
\* The whole loop of Step 3
ProcessRows(map, rows) ==
    IF rows = <<>> THEN map ELSE ProcessRows(ProcessRow(map, Head(rows)), Tail(rows))

\* A comparison of the degree only.
QualMatchesDegreeOnly(q, qual) == q.degree_name = qual.degree_name
\* q.degree_name === qual.degree_name && q.institution === qual.institution &&
\* q.completion_year === qual.completion_year
QualMatches(q, qual) ==
    /\ q.degree_name = qual.degree_name
    /\ q.institution = qual.institution
    /\ q.completion_year = qual.completion_year
\* One iteration of for (const qual of qualifications)
ProcessQual(map, qual) ==
    IF /\ MapHas(map, qual.doctor_id)
       /\ LET qs == map[MapIndex(map, qual.doctor_id)].qualifications
          IN  ~\E k \in 1..Len(qs) : QualMatches(qs[k], qual)
    THEN [map EXCEPT ![MapIndex(map, qual.doctor_id)].qualifications =
            Append(@, [degree_name |-> qual.degree_name, institution |-> qual.institution,
                       completion_year |-> qual.completion_year])]
    ELSE map

\* One iteration of for (const doc of documents)
ProcessDoc(map, doc) ==
    IF /\ MapHas(map, doc.doctor_id)
       /\ LET ds == map[MapIndex(map, doc.doctor_id)].documents
          IN  ~\E k \in 1..Len(ds) : /\ ds[k].document_type = doc.document_type
                                     /\ ds[k].document_url = doc.document_url
    THEN [map EXCEPT ![MapIndex(map, doc.doctor_id)].documents =
            Append(@, [document_type |-> doc.document_type, document_url |-> doc.document_url,
                       status |-> doc.status])]
    ELSE map

\* The three queries: all succeed, or one fails and the catch answers 500.
AggStart ==
    /\ agg.pc = "idle"
    /\ \E ok \in BOOLEAN :
        agg' = IF ok THEN AggBegun ELSE [AggBegun EXCEPT !.pc = "done", !.status = 500]
    /\ UNCHANGED blogVars

\* The next row of the join result, which is ordered by d.id
AggRow ==
    /\ agg.pc = "rows" /\ Len(agg.rows) < MaxRows
    /\ \E row \in RowsOf(cfg.rows) :
        /\ IF agg.rows = <<>> THEN TRUE ELSE agg.rows[Len(agg.rows)].doctor_id <= row.doctor_id
        /\ agg' = [agg EXCEPT !.rows = Append(@, row), !.map = ProcessRow(@, row)]
    /\ UNCHANGED blogVars

AggEndRows ==
    /\ agg.pc = "rows"
    /\ agg' = [agg EXCEPT !.pc = "quals"]
    /\ UNCHANGED blogVars

AggQual ==
    /\ agg.pc = "quals" /\ Len(agg.quals) < MaxQuals
    /\ \E qual \in QualDomain :
        agg' = [agg EXCEPT !.quals = Append(@, qual), !.map = ProcessQual(@, qual)]
    /\ UNCHANGED blogVars

AggEndQuals ==
    /\ agg.pc = "quals"
    /\ agg' = [agg EXCEPT !.pc = "docs"]
    /\ UNCHANGED blogVars

AggDoc ==
    /\ agg.pc = "docs" /\ Len(agg.docs) < MaxDocs
    /\ \E doc \in DocDomain :
        agg' = [agg EXCEPT !.docs = Append(@, doc), !.map = ProcessDoc(@, doc)]
    /\ UNCHANGED blogVars

\* res.status(200).json({ data: Array.from(doctorsMap.values()) })
AggRespond ==
    /\ agg.pc = "docs"
    /\ agg' = [agg EXCEPT !.pc = "done", !.status = 200, !.data = agg.map]
    /\ UNCHANGED blogVars

\* No blog request runs; the row loop draws from the rows named.
InitNoBlog(rows) ==
    /\ InitCommon
    /\ db = EmptyDb
    /\ cfg = [maxActive |-> 0, sameUser |-> FALSE, keepLog |-> FALSE, rows |-> rows]
    /\ faultsLeft = 0

\* The row loop, with empty qualification and document tables.
InitAggRows == InitNoBlog("keys") /\ agg = AggIdle
NextAggRows == AggStart \/ AggRow \/ AggEndRows \/ AggEndQuals \/ AggRespond
SpecAggRows == InitAggRows /\ [][NextAggRows]_vars

\* The row loop over rows that differ in their non-key fields.
InitAggFields == InitNoBlog("fields") /\ agg = AggIdle
SpecAggFields == InitAggFields /\ [][NextAggRows]_vars

\* The row and document loops over rows of one doctor that repeat their keys
\* with different non-key fields; the qualification table is empty.
InitAggFirst == InitNoBlog("first") /\ agg = AggIdle
NextAggFirst == AggStart \/ AggRow \/ AggEndRows \/ AggEndQuals \/ AggDoc \/ AggRespond
SpecAggFirst == InitAggFirst /\ [][NextAggFirst]_vars

\* The qualification and document loops, from the maps that the row loop builds
\* for no doctor, one doctor and two doctors.
StitchRow(d) ==
    [doctor_id |-> d, doctor_practice_id |-> d, clinic_id |-> 1, hospital_id |-> NULL,
     hospital_department_id |-> NULL, schedule_id |-> NULL, is_primary |-> 1]
StitchRowSeqs == {<<>>, <<StitchRow(1)>>, <<StitchRow(1), StitchRow(2)>>}
InitAggStitch ==
    /\ InitNoBlog("keys")
    /\ \E rows \in StitchRowSeqs :
        agg = [AggBegun EXCEPT !.pc = "quals", !.rows = rows, !.map = ProcessRows(<<>>, rows)]
NextAggStitch == AggQual \/ AggEndQuals \/ AggDoc \/ AggRespond
SpecAggStitch == InitAggStitch /\ [][NextAggStitch]_vars

Answered == agg.pc = "done" /\ agg.status = 200

\* C8: the data array of a 200 response holds exactly one doctor object for
\* every doctor_id that occurs in the joined rows, and none for any other id.
C8_OneDoctorPerId ==
    Answered =>
        \A id \in DoctorIds :
            Cardinality({k \in 1..Len(agg.data) : agg.data[k].doctor_id = id})
                = IF \E i \in 1..Len(agg.rows) : agg.rows[i].doctor_id = id THEN 1 ELSE 0

\* Two rows of the same doctor were processed and the response holds one object.
C8_Witness ==
    /\ Answered /\ Len(agg.rows) >= 2
    /\ agg.rows[1].doctor_id = agg.rows[2].doctor_id
    /\ Len(agg.data) = 1

HospitalKey(h) == <<h.hospital_id, h.department>>
DistinctIds(seq) == \A i, j \in 1..Len(seq) : seq[i].id = seq[j].id => i = j
NestedUnique(doctor) ==
    /\ DistinctIds(doctor.practices)
    /\ DistinctIds(doctor.clinics)
    /\ \A i, j \in 1..Len(doctor.hospitals) :
            HospitalKey(doctor.hospitals[i]) = HospitalKey(doctor.hospitals[j]) => i = j
    /\ \A c \in 1..Len(doctor.clinics) : DistinctIds(doctor.clinics[c].schedules)
    /\ \A h \in 1..Len(doctor.hospitals) : DistinctIds(doctor.hospitals[h].schedules)
HasId(seq, id) == \E x \in 1..Len(seq) : seq[x].id = id
\* A step of the row loop leaves the length of every collection of the row's
\* doctor that already holds the row's id.
RowStep ==
    agg.pc = "rows" /\ agg'.pc = "rows" /\ Len(agg'.rows) = Len(agg.rows) + 1
    => LET row == agg'.rows[Len(agg'.rows)] IN
       \A k \in 1..Len(agg.map) :
          agg.map[k].doctor_id = row.doctor_id =>
            LET old == agg.map[k]
                new == agg'.map[k]
            IN  /\ HasId(old.practices, row.doctor_practice_id)
                        => Len(new.practices) = Len(old.practices)
                /\ \A c \in 1..Len(old.clinics) :
                      old.clinics[c].id = row.clinic_id =>
                        /\ Len(new.clinics) = Len(old.clinics)
                        /\ HasId(old.clinics[c].schedules, row.schedule_id)
                              => Len(new.clinics[c].schedules) = Len(old.clinics[c].schedules)
                /\ \A h \in 1..Len(old.hospitals) :
                      HospitalKey(old.hospitals[h]) = <<row.hospital_id, row.hospital_department_id>> =>
                        /\ Len(new.hospitals) = Len(old.hospitals)
                        /\ HasId(old.hospitals[h].schedules, row.schedule_id)
                              => Len(new.hospitals[h].schedules) = Len(old.hospitals[h].schedules)

\* C9: at every point of the row loop each doctor has at most one practice
\* per practice id, one clinic per clinic id, one hospital per (hospital_id,
\* hospital_department_id) and, in each clinic and hospital, one schedule per
\* schedule id; a row whose ids are all present changes none of them.
C9_NestedDedup ==
    /\ [](agg.pc \in {"rows", "quals", "docs", "done"} =>
            \A k \in 1..Len(agg.map) : NestedUnique(agg.map[k]))
    /\ [][RowStep]_vars

\* The same row, with a clinic, a hospital department and a schedule, was
\* processed twice and the doctor has one entry of each.
C9_Witness ==
    /\ agg.pc = "rows" /\ Len(agg.rows) >= 2 /\ agg.rows[1] = agg.rows[2]
    /\ agg.rows[1].clinic_id = 1 /\ agg.rows[1].hospital_id = 1 /\ agg.rows[1].schedule_id = 2
    /\ Len(agg.map[1].practices) = 1 /\ Len(agg.map[1].clinics) = 1
    /\ Len(agg.map[1].hospitals) = 1
    /\ Len(agg.map[1].clinics[1].schedules) = 1 /\ Len(agg.map[1].hospitals[1].schedules) = 1

\* C10: in a 200 response every doctor's qualifications hold exactly one entry
\* for every (degree_name, institution, completion_year) that occurs among the
\* qualification rows of that doctor, and no other entry.
C10_QualificationsOncePerTuple ==
    Answered =>
        \A d \in 1..Len(agg.data) :
            \A t \in [degree_name : {"MBBS", "MD"}, institution : {"AIIMS"},
                      completion_year : {NULL, 2001}] :
                Cardinality({k \in 1..Len(agg.data[d].qualifications) :
                                agg.data[d].qualifications[k] = t})
                    = IF \E i \in 1..Len(agg.quals) :
                            agg.quals[i] = [doctor_id |-> agg.data[d].doctor_id,
                                            degree_name |-> t.degree_name,
                                            institution |-> t.institution,
                                            completion_year |-> t.completion_year]
                      THEN 1 ELSE 0

\* Doctor 1's qualification rows were the same tuple twice, and the response
\* lists it once.
C10_Witness ==
    /\ Answered /\ Len(agg.quals) >= 2 /\ agg.quals[1] = agg.quals[2]
    /\ agg.quals[1].doctor_id = 1
    /\ Len(agg.data) >= 1 /\ agg.data[1].doctor_id = 1
    /\ Len(agg.data[1].qualifications) = 1

InLoops == agg.pc \in {"rows", "quals", "docs", "done"}
\* A step of the row loop, and the row it processed.
IsRowStep == agg.pc = "rows" /\ agg'.pc = "rows" /\ Len(agg'.rows) = Len(agg.rows) + 1
StepRow == agg'.rows[Len(agg'.rows)]
\* A collection of the doctor with this id, empty when the map has no such doctor.
ClinicsOf(map, id) ==
    LET S == {k \in 1..Len(map) : map[k].doctor_id = id}
    IN  IF S = {} THEN <<>> ELSE map[Least(S)].clinics
HospitalsOf(map, id) ==
    LET S == {k \in 1..Len(map) : map[k].doctor_id = id}
    IN  IF S = {} THEN <<>> ELSE map[Least(S)].hospitals
PracticesOf(map, id) ==
    LET S == {k \in 1..Len(map) : map[k].doctor_id = id}
    IN  IF S = {} THEN <<>> ELSE map[Least(S)].practices

\* C11: a row with a NULL clinic_id leaves every doctor's clinics as they
\* were, a row with a NULL hospital id or department id leaves every doctor's
\* hospitals as they were, and no clinic or hospital entry ever has a NULL id.
C11_NoNullEntries ==
    /\ [](InLoops =>
            \A k \in 1..Len(agg.map) :
                /\ \A c \in 1..Len(agg.map[k].clinics) : agg.map[k].clinics[c].id # NULL
                /\ \A h \in 1..Len(agg.map[k].hospitals) :
                        /\ agg.map[k].hospitals[h].hospital_id # NULL
                        /\ agg.map[k].hospitals[h].department # NULL)
    /\ [][IsRowStep =>
            \A id \in DoctorIds :
                /\ StepRow.clinic_id = NULL => ClinicsOf(agg'.map, id) = ClinicsOf(agg.map, id)
                /\ (StepRow.hospital_id = NULL \/ StepRow.hospital_department_id = NULL)
                        => HospitalsOf(agg'.map, id) = HospitalsOf(agg.map, id)
         ]_vars

\* The only row of doctor 1 had no clinic and a department without a hospital:
\* the doctor has the practice and neither a clinic nor a hospital.
C11_Witness ==
    /\ agg.pc = "done" /\ agg.status = 200 /\ Len(agg.rows) = 1
    /\ agg.rows[1].clinic_id = NULL /\ agg.rows[1].hospital_id = NULL
    /\ agg.rows[1].hospital_department_id = 1
    /\ Len(agg.data) = 1 /\ Len(agg.data[1].practices) = 1
    /\ agg.data[1].clinics = <<>> /\ agg.data[1].hospitals = <<>>

\* The first position of a sequence that is in a set of positions.
FirstRow(S) == CHOOSE i \in S : \A j \in S : i <= j
RowsWithPractice(id, p) ==
    {i \in 1..Len(agg.rows) : agg.rows[i].doctor_id = id /\ agg.rows[i].doctor_practice_id = p}
RowsWithClinic(id, c) ==
    {i \in 1..Len(agg.rows) : agg.rows[i].doctor_id = id /\ agg.rows[i].clinic_id = c}
RowsWithHospital(id, h, dep) ==
    {i \in 1..Len(agg.rows) : /\ agg.rows[i].doctor_id = id /\ agg.rows[i].hospital_id = h
                              /\ agg.rows[i].hospital_department_id = dep}
DocsWithKey(id, type, url) ==
    {i \in 1..Len(agg.docs) : /\ agg.docs[i].doctor_id = id /\ agg.docs[i].document_type = type
                              /\ agg.docs[i].document_url = url}

\* C12: at every point of the loops, and so in the response, the non-key
\* fields of every practice, clinic, hospital and document entry are those of
\* the first row processed with the entry's key.
C12_FirstRowWins ==
    InLoops =>
        \A k \in 1..Len(agg.map) :
            LET doctor == agg.map[k]
                id == doctor.doctor_id
            IN  /\ \A x \in 1..Len(doctor.practices) :
                      LET e == doctor.practices[x]
                          row == agg.rows[FirstRow(RowsWithPractice(id, e.id))]
                      IN  /\ e.clinic_id = row.clinic_id
                          /\ e.hospital_department_id = row.hospital_department_id
                          /\ e.is_primary = (row.is_primary = 1)
                /\ \A x \in 1..Len(doctor.clinics) :
                      LET e == doctor.clinics[x]
                          row == agg.rows[FirstRow(RowsWithClinic(id, e.id))]
                      IN  e.is_primary = (row.is_primary = 1)
                /\ \A x \in 1..Len(doctor.hospitals) :
                      LET e == doctor.hospitals[x]
                          row == agg.rows[FirstRow(RowsWithHospital(id, e.hospital_id, e.department))]
                      IN  e.is_primary = (row.is_primary = 1)
                /\ \A x \in 1..Len(doctor.documents) :
                      LET e == doctor.documents[x]
                          doc == agg.docs[FirstRow(DocsWithKey(id, e.document_type, e.document_url))]
                      IN  e.status = doc.status

\* Two rows with the same practice, clinic and hospital department differed in
\* is_primary, two document rows with the same type and url differed in status,
\* and the response has one entry of each with the first row's values.
C12_Witness ==
    /\ Answered /\ Len(agg.rows) = 2 /\ Len(agg.docs) = 2
    /\ agg.rows[1].clinic_id = 1 /\ agg.rows[2].clinic_id = 1
    /\ agg.rows[1].hospital_id = 1 /\ agg.rows[2].hospital_id = 1
    /\ agg.rows[1].is_primary = 1 /\ agg.rows[2].is_primary = 0
    /\ agg.docs[1].document_url = agg.docs[2].document_url
    /\ agg.docs[1].status = "pending" /\ agg.docs[2].status = "approved"
    /\ Len(agg.data[1].clinics) = 1 /\ agg.data[1].clinics[1].is_primary
    /\ Len(agg.data[1].hospitals) = 1 /\ agg.data[1].hospitals[1].is_primary
    /\ Len(agg.data[1].practices) = 1 /\ agg.data[1].practices[1].is_primary
    /\ Len(agg.data[1].documents) = 1 /\ agg.data[1].documents[1].status = "pending"

\* The position of the first row with this doctor_id.
FirstOccurrence(id) == FirstRow({i \in 1..Len(agg.rows) : agg.rows[i].doctor_id = id})

\* C13: in a 200 response a doctor object stands before another exactly when
\* its doctor_id first occurs earlier in the joined rows.
C13_FirstOccurrenceOrder ==
    Answered =>
        \A a, b \in 1..Len(agg.data) :
            a < b => FirstOccurrence(agg.data[a].doctor_id) < FirstOccurrence(agg.data[b].doctor_id)

\* The rows were of doctor 1 and then doctor 2, and the response lists doctor
\* 1 and then doctor 2.
C13_Witness ==
    /\ Answered /\ Len(agg.rows) = 2
    /\ agg.rows[1].doctor_id = 1 /\ agg.rows[2].doctor_id = 2
    /\ Len(agg.data) = 2 /\ agg.data[1].doctor_id = 1 /\ agg.data[2].doctor_id = 2

(***************************************************************************)
(* getAllReferrals (referal.controller.js 34-116).  One query, then a loop *)
(* that groups the rows by referrer in the plain object `grouped`, then    *)
(* the response with Object.values(grouped).  An object lists its integer  *)
(* keys in ascending order, whatever the order they were added in; a       *)
(* referrer_id is users.id, an integer.  The object is kept as the         *)
(* sequence of its values in the order Object.values lists them.           *)
(***************************************************************************)
ReferrerIds == {1, 2, 3}
ReferralRows == [referrer_id : ReferrerIds, referee_id : {4, 5}]

\* grouped[referrerId], truthy when the key is present
GroupedHas(grouped, id) == \E k \in 1..Len(grouped) : grouped[k].referrer_id = id
\* grouped[referrerId] = {...} for a new integer key: the key takes its place in
\* ascending order among the keys
GroupedSet(grouped, group) ==
    LET below == {k \in 1..Len(grouped) : grouped[k].referrer_id < group.referrer_id}
        n == Cardinality(below)
    IN  SubSeq(grouped, 1, n) \o <<group>> \o SubSeq(grouped, n + 1, Len(grouped))
\* One call of the rows.forEach callback
GroupRow(grouped, row) ==
    LET g1 == IF GroupedHas(grouped, row.referrer_id) THEN grouped
              ELSE GroupedSet(grouped, [referrer_id |-> row.referrer_id, referrals_count |-> 0,
                                        referrals |-> <<>>])
        k == CHOOSE k \in 1..Len(g1) : g1[k].referrer_id = row.referrer_id
    IN  [g1 EXCEPT ![k].referrals = Append(@, [referee_id |-> row.referee_id]),
                   ![k].referrals_count = @ + 1]

ReferralsBegun == [pc |-> "referralRows", rows |-> <<>>, grouped |-> <<>>, status |-> 0,
                   count |-> 0, data |-> <<>>]

\* The query: it succeeds, or it fails and the catch answers 500.
GetAllReferrals ==
    /\ agg.pc = "idle"
    /\ \E ok \in BOOLEAN :
        agg' = IF ok THEN ReferralsBegun
               ELSE [ReferralsBegun EXCEPT !.pc = "referralsDone", !.status = 500]
    /\ UNCHANGED blogVars

\* The next row, in the order of created_at descending: any referrer may come next.
ReferralRow ==
    /\ agg.pc = "referralRows" /\ Len(agg.rows) < MaxReferrals
    /\ \E row \in ReferralRows :
        agg' = [agg EXCEPT !.rows = Append(@, row), !.grouped = GroupRow(@, row)]
    /\ UNCHANGED blogVars

\* res.status(200).json({ count: Object.keys(grouped).length, data: Object.values(grouped) })
ReferralsRespond ==
    /\ agg.pc = "referralRows"
    /\ agg' = [agg EXCEPT !.pc = "referralsDone", !.status = 200,
                          !.count = Len(agg.grouped), !.data = agg.grouped]
    /\ UNCHANGED blogVars

InitReferrals == InitNoBlog("keys") /\ agg = AggIdle
NextReferrals == GetAllReferrals \/ ReferralRow \/ ReferralsRespond
SpecReferrals == InitReferrals /\ [][NextReferrals]_vars

FirstReferral(id) == FirstRow({i \in 1..Len(agg.rows) : agg.rows[i].referrer_id = id})

\* C14: in a 200 response of getAllReferrals a referrer group stands before
\* another exactly when its referrer_id first occurs earlier in the rows.
C14_ReferrerFirstOccurrenceOrder ==
    (agg.pc = "referralsDone" /\ agg.status = 200) =>
        \A a, b \in 1..Len(agg.data) :
            a < b => FirstReferral(agg.data[a].referrer_id) < FirstReferral(agg.data[b].referrer_id)

(***************************************************************************)
(* The awaits of the multi-query aggregation handlers:                     *)
(* getAllDoctorsWithPracticeDetails (hospitals.controller.js 222-438),     *)
(* getVerifiedDoctorsDetails (user.controller.js 440-558), getAllBlogs     *)
(* (blog.controller.js 19-61) and getBlogBySlug (blog.controller.js        *)
(* 142-213).  Each handler is one try block of awaited queries with one    *)
(* catch; one step per awaited query.  Of a query's result only the number *)
(* of rows of the first query is kept (it decides how many queries         *)
(* follow); `parts` counts the query results the handler holds.            *)
(***************************************************************************)
Aggregations ==
    {"getAllDoctorsWithPracticeDetails", "getVerifiedDoctorsDetails", "getAllBlogs",
     "getBlogBySlug"}

\* The queries the handler awaits when its first query returns n rows.
QueriesOf(kind, n) ==
    CASE kind = "getAllDoctorsWithPracticeDetails" -> 3
      [] kind = "getVerifiedDoctorsDetails" -> 1 + 5 * n
      [] kind = "getAllBlogs" -> IF n = 0 THEN 1 ELSE 2
      [] OTHER -> IF n = 0 THEN 1 ELSE 5
\* The status of the response after the last query.
FinalStatus(kind, n) == IF kind = "getBlogBySlug" /\ n = 0 THEN 404 ELSE 200

AggregationBegun(kind) ==
    [pc |-> "await", kind |-> kind, n |-> 0, awaited |-> 0, parts |-> 0, failed |-> FALSE,
     sent |-> <<>>]

\* The awaited query returned (the first one with n rows); after the last
\* query the handler builds and sends its response without another await.
QueryReturned(a, n) ==
    LET b == [a EXCEPT !.n = IF a.awaited = 0 THEN n ELSE @, !.awaited = @ + 1, !.parts = @ + 1]
    IN  IF b.awaited = QueriesOf(b.kind, b.n)
        THEN [b EXCEPT !.pc = "answered",
                       !.sent = Append(@, [status |-> FinalStatus(b.kind, b.n),
                                           parts |-> b.parts])]
        ELSE b
\* A failed query taken as an empty result: the handler goes on.
QueryFailedIgnored(a) ==
    LET b == [a EXCEPT !.failed = TRUE, !.awaited = @ + 1]
    IN  IF b.awaited = QueriesOf(b.kind, b.n)
        THEN [b EXCEPT !.pc = "answered",
                       !.sent = Append(@, [status |-> FinalStatus(b.kind, b.n),
                                           parts |-> b.parts])]
        ELSE b
\* The awaited query rejected: catch (error) { res.status(500).json(...) }
QueryFailed(a) ==
    [a EXCEPT !.failed = TRUE, !.pc = "answered",
              !.sent = Append(@, [status |-> 500, parts |-> 0])]

StartAggregation ==
    /\ agg.pc = "idle"
    /\ \E kind \in Aggregations : agg' = AggregationBegun(kind)
    /\ UNCHANGED blogVars

AwaitQuery ==
    /\ agg.pc = "await"
    /\ \E ok \in BOOLEAN, n \in 0..MaxParents :
        /\ agg.awaited > 0 => n = agg.n
        /\ agg' = IF ok THEN QueryReturned(agg, n) ELSE QueryFailed(agg)
    /\ UNCHANGED blogVars

InitAggregations == InitNoBlog("keys") /\ agg = AggIdle
NextAggregations == StartAggregation \/ AwaitQuery
SpecAggregations == InitAggregations /\ [][NextAggregations]_vars

\* C15: an aggregation handler sends at most one response; once one of its
\* queries has failed that response is a 500 that carries no query result,
\* and a 200 or 404 response carries the results of all the handler's queries.
C15_NoPartialAggregation ==
    agg.pc \in {"await", "answered"} =>
        /\ Len(agg.sent) <= 1
        /\ (agg.pc = "answered") = (Len(agg.sent) = 1)
        /\ agg.failed => agg.sent = <<[status |-> 500, parts |-> 0]>>
        /\ \A i \in 1..Len(agg.sent) :
                agg.sent[i].status # 500 =>
                    /\ ~agg.failed
                    /\ agg.sent[i].parts = QueriesOf(agg.kind, agg.n)

\* getVerifiedDoctorsDetails had enriched the first of two doctors when a
\* query of the second doctor failed: the only response is the 500.
C15_Witness ==
    /\ agg.pc = "answered" /\ agg.kind = "getVerifiedDoctorsDetails"
    /\ agg.n = 2 /\ agg.parts = 7 /\ agg.failed
    /\ agg.sent = <<[status |-> 500, parts |-> 0]>>

(***************************************************************************)
(* getAllMilletProducts and getMilletProductById (src/unnamed/part_000).   *)
(* One query, then a synchronous parse of each row's nutritional_info_json *)
(* and the response.  A JS value is a record of its type and its content.  *)
(***************************************************************************)
JsNull == [type |-> "null", v |-> ""]
JsString(text) == [type |-> "string", v |-> text]
JsNumber(text) == [type |-> "number", v |-> text]
JsObject(text) == [type |-> "object", v |-> text]
EmptyObject == JsObject("{}")

\* The texts JSON.parse accepts, of those the model stores, with their values.
ValidJsonTexts == {"{}", "[350]", "null", "0"}
\* JSON.parse(text) for an accepted text
JsonParse(text) ==
    CASE text = "{}" -> EmptyObject
      [] text = "[350]" -> JsObject("[350]")
      [] text = "null" -> JsNull
      [] OTHER -> JsNumber("0")
\* What the driver can deliver for the column: NULL, a text (empty, valid JSON,
\* malformed, blank), or for a JSON column the value already parsed.
ColumnValues ==
    {JsNull, JsString(""), JsString("{}"), JsString("[350]"), JsString("null"),
     JsString("0"), JsString("{bad"), JsString(" "), JsObject("[350]")}
\* JS truthiness
TruthyValue(x) ==
    /\ x.type # "null"
    /\ ~(x.type = "string" /\ x.v = "")
    /\ ~(x.type = "number" /\ x.v = "0")

\* nutritional_info taken from the column as it is.
ColumnAsIs(json) == json
\* let nutritionalInfo = {}; if (json) { try { string ? JSON.parse(json) : json } catch { warn } }
NutritionalInfo(json) ==
    IF ~TruthyValue(json) THEN EmptyObject
    ELSE IF json.type = "string"
         THEN IF json.v \in ValidJsonTexts THEN JsonParse(json.v) ELSE EmptyObject
         ELSE json
\* { ...product, nutritional_info: nutritionalInfo }
WithNutritionalInfo(product) ==
    [id |-> product.id, nutritional_info_json |-> product.nutritional_info_json,
     nutritional_info |-> NutritionalInfo(product.nutritional_info_json)]

ProductsBegun(kind) ==
    [pc |-> "products", kind |-> kind, rows |-> <<>>, products |-> <<>>, status |-> 0, count |-> 0]

\* getAllMilletProducts: the query succeeds, or fails and the catch answers 500.
GetAllMilletProducts ==
    /\ agg.pc = "idle"
    /\ \E ok \in BOOLEAN :
        agg' = IF ok THEN ProductsBegun("getAllMilletProducts")
               ELSE [ProductsBegun("getAllMilletProducts") EXCEPT !.pc = "productsDone",
                                                                  !.status = 500]
    /\ UNCHANGED blogVars

\* One call of the rows.map callback; the rows come ordered by id descending.
MilletProductRow ==
    /\ agg.pc = "products" /\ agg.kind = "getAllMilletProducts" /\ Len(agg.rows) < MaxProducts
    /\ \E json \in ColumnValues :
        LET product == [id |-> MaxProducts + 1 - Len(agg.rows), nutritional_info_json |-> json]
        IN  agg' = [agg EXCEPT !.rows = Append(@, product),
                               !.products = Append(@, WithNutritionalInfo(product))]
    /\ UNCHANGED blogVars

\* res.status(200).json({ success: true, count: products.length, products })
MilletProductsRespond ==
    /\ agg.pc = "products" /\ agg.kind = "getAllMilletProducts"
    /\ agg' = [agg EXCEPT !.pc = "productsDone", !.status = 200, !.count = Len(agg.products)]
    /\ UNCHANGED blogVars

\* getMilletProductById: the query fails (500), finds no active product with
\* the id (404), or finds it (200 with the product).
GetMilletProductById ==
    /\ agg.pc = "idle"
    /\ \E outcome \in {"fail", "none", "row"}, json \in ColumnValues :
        LET begun == ProductsBegun("getMilletProductById")
            product == [id |-> 1, nutritional_info_json |-> json]
        IN  agg' = CASE outcome = "fail" -> [begun EXCEPT !.pc = "productsDone", !.status = 500]
                     [] outcome = "none" -> [begun EXCEPT !.pc = "productsDone", !.status = 404]
                     [] OTHER -> [begun EXCEPT !.pc = "productsDone", !.status = 200,
                                               !.rows = <<product>>, !.count = 1,
                                               !.products = <<WithNutritionalInfo(product)>>]
    /\ UNCHANGED blogVars

InitProducts == InitNoBlog("keys") /\ agg = AggIdle
NextProducts ==
    GetAllMilletProducts \/ MilletProductRow \/ MilletProductsRespond \/ GetMilletProductById
SpecProducts == InitProducts /\ [][NextProducts]_vars

IsJsonText(json) == json.type = "string" /\ json.v \in ValidJsonTexts
IsMalformed(json) == json.type = "string" /\ json.v # "" /\ json.v \notin ValidJsonTexts

\* C16: whatever the rows hold, once the query has succeeded the handler
\* answers 200 with one product per row in the rows' order, each with its own
\* id and column, nutritional_info being the parsed value for valid JSON text
\* and the empty object for NULL, empty or malformed text.
C16_NutritionalInfo ==
    /\ agg.pc = "products" => Len(agg.products) = Len(agg.rows)
    /\ (agg.pc = "productsDone" /\ agg.rows # <<>>) =>
        /\ agg.status = 200
        /\ agg.count = Len(agg.rows)
        /\ Len(agg.products) = Len(agg.rows)
        /\ \A i \in 1..Len(agg.rows) :
            LET json == agg.rows[i].nutritional_info_json
                product == agg.products[i]
            IN  /\ product.id = agg.rows[i].id
                /\ product.nutritional_info_json = json
                /\ IsJsonText(json) => product.nutritional_info = JsonParse(json.v)
                /\ (json = JsNull \/ json = JsString("") \/ IsMalformed(json))
                        => product.nutritional_info = EmptyObject

\* The list held a malformed row and then a row with valid JSON: the answer
\* is 200 with both products, the second with its parsed value.
C16_Witness ==
    /\ agg.pc = "productsDone" /\ agg.kind = "getAllMilletProducts" /\ agg.status = 200
    /\ Len(agg.rows) = 2
    /\ agg.rows[1].nutritional_info_json = JsString("{bad")
    /\ agg.rows[2].nutritional_info_json = JsString("[350]")
    /\ agg.products[1].nutritional_info = EmptyObject
    /\ agg.products[2].nutritional_info = JsObject("[350]")

\* ---------------------------------------------------------------------------
\* Image positions (createBlog, updateBlog, deleteMultipleImages)
\* ---------------------------------------------------------------------------

StoredIds(rows) == [k \in 1..Len(rows) |-> rows[k].public_id]
DensePositions(d) ==
    \A b \in BlogIds : \A k \in 1..Len(d.blog_images[b]) : d.blog_images[b][k].position = k

CanStartFetch(s) ==
    /\ req[s].kind = "idle"
    /\ started < MaxFetchRequests
    /\ Cardinality(Active) < cfg.maxActive

\* createBlog with title, slug s2 and an images list
StartFetchCreate(s) ==
    /\ CanStartFetch(s)
    /\ db.next_id \in BlogIds
    /\ started' = started + 1
    /\ \E body \in {b \in CreateBodies : b.slug = "s2" /\ b.title = "t1" /\ b.featured = NullStr
                                         /\ b.imagesGiven /\ b.imagesParse} :
        Goto(s, NewRequest("createBlog", "getConnection", 0, 0, body))
    /\ UNCHANGED <<db, media, pool, faultsLeft, cfg, agg, subs, acct>>

\* updateBlog with an empty body
StartFetchUpdate(s) ==
    /\ CanStartFetch(s)
    /\ started' = started + 1
    /\ \E b \in BlogIds :
        Goto(s, NewRequest("updateBlog", "getConnection", 0, b, NoBody))
    /\ UNCHANGED <<db, media, pool, faultsLeft, cfg, agg, subs, acct>>

StartFetchGet(s) ==
    /\ CanStartFetch(s)
    /\ started' = started + 1
    /\ \E b \in BlogIds :
        Goto(s, NewRequest("getBlogById", "getConnection", 0, b, NoBody))
    /\ UNCHANGED <<db, media, pool, faultsLeft, cfg, agg, subs, acct>>

InitFetch ==
    /\ InitCommon
    /\ agg = AggIdle
    /\ db \in {d \in BlogDbs : d.next_id = 2}
    /\ cfg = [maxActive |-> 2, sameUser |-> FALSE, keepLog |-> TRUE]
    /\ faultsLeft = 0

NextFetch ==
    \E s \in Slots :
        \/ StartFetchCreate(s) \/ StartFetchUpdate(s) \/ StartFetchGet(s)
        \/ GetConnection(s) \/ BeginTransaction(s) \/ Commit(s) \/ Rollback(s)
        \/ CreateInsertBlog(s) \/ InsertImage(s) \/ UpdateSelectBlog(s)
        \/ GbSelectBlog(s) \/ GbSelectImages(s)

SpecFetch == InitFetch /\ [][NextFetch]_vars

\* Entry j of the log is a getBlogById of the blog that entry i's createBlog
\* made, and no request on that blog changed rows in between.
FetchesCreated(i, j) ==
    /\ i < j
    /\ log[i].kind = "createBlog" /\ log[i].status = 201
    /\ log[j].kind = "getBlogById" /\ log[j].blog = log[i].blog
    /\ \A k \in (i + 1)..(j - 1) :
            log[k].kind = "getBlogById" \/ log[k].blog # log[i].blog \/ log[k].status # 200

\* C18: a getBlogById that follows a createBlog answered 201, with no update
\* or deletion of that blog in between, answers 200 with one image per
\* element of the createBlog's images list, the i-th carrying the i-th
\* element at position i.
C18_CreateThenFetch ==
    \A i \in 1..Len(log), j \in 1..Len(log) :
        FetchesCreated(i, j) =>
            /\ log[j].status = 200
            /\ log[j].returned = ImageRows(log[i].sent)

\* ---------------------------------------------------------------------------
\* Subscription plans and plan benefits (user.controller.js 652-1017):
\* updateSubscriptionPlan, deleteSubscriptionPlan, updatePlanBenefit,
\* deletePlanBenefit.  Every statement goes through db.query (autocommit);
\* any of them may fail, which the catch block answers with 500.
\* ---------------------------------------------------------------------------

appVars == <<db, media, pool, req, started, faultsLeft, cfg, log, last, agg, acct>>

\* A body field that is not sent, and a JSON boolean.
Absent == [type |-> "undefined", v |-> ""]
JsBool(text) == [type |-> "boolean", v |-> text]

ActorIds == {1, 2, 3}
PlanIds == {1, 2}
BenefitIds == {1, 2}
SubsKinds == {"updateSubscriptionPlan", "deleteSubscriptionPlan",
              "updatePlanBenefit", "deletePlanBenefit"}
IsPlanKind(kind) == kind \in {"updateSubscriptionPlan", "deleteSubscriptionPlan"}
IsUpdateKind(kind) == kind \in {"updateSubscriptionPlan", "updatePlanBenefit"}

\* users.role_id by user id (0: no such user): an admin, a patient, nobody.
SubsUsers == [u \in ActorIds |-> CASE u = 1 -> ADMIN_ROLE_ID [] u = 2 -> 1 [] OTHER -> 0]

\* The rows as the driver delivers them: DECIMAL as text, TINYINT and INT as
\* numbers, a NULL notes column as null.
PlanRow(active) ==
    [name |-> JsString("Basic"), description |-> JsString("d"), price |-> JsString("99.00"),
     currency |-> JsString("USD"), duration_days |-> JsNumber("30"), is_active |-> JsNumber(active)]
BenefitRow(notes) ==
    [plan_id |-> JsNumber("1"), benefit_description |-> JsString("b"),
     benefit_type |-> JsString("Feature"), quantity |-> JsNumber("10"), notes |-> notes]
BlankPlan == [f \in DOMAIN PlanRow("0") |-> JsNull]
BlankBenefit == [f \in DOMAIN BenefitRow(JsNull) |-> JsNull]

NoPlanBody == [f \in DOMAIN PlanRow("0") |-> Absent]
NoBenefitBody == [f \in DOMAIN BenefitRow(JsNull) |-> Absent]
PlanBodies ==
    { NoPlanBody,
      [NoPlanBody EXCEPT !["name"] = JsString("Basic")],
      [NoPlanBody EXCEPT !["name"] = JsString("")],
      [NoPlanBody EXCEPT !["description"] = JsNull],
      [NoPlanBody EXCEPT !["price"] = JsString("99.00")],
      [NoPlanBody EXCEPT !["price"] = JsNumber("99")],
      [NoPlanBody EXCEPT !["price"] = JsNumber("120")],
      [NoPlanBody EXCEPT !["is_active"] = JsNumber("1")],
      [NoPlanBody EXCEPT !["is_active"] = JsBool("true")],
      [NoPlanBody EXCEPT !["is_active"] = JsBool("false")],
      [NoPlanBody EXCEPT !["currency"] = JsString("USD"), !["duration_days"] = JsNumber("30")],
      [NoPlanBody EXCEPT !["name"] = JsString("Pro"), !["duration_days"] = JsNumber("60")] }
BenefitBodies ==
    { NoBenefitBody,
      [NoBenefitBody EXCEPT !["plan_id"] = JsNumber("1")],
      [NoBenefitBody EXCEPT !["plan_id"] = JsString("1")],
      [NoBenefitBody EXCEPT !["plan_id"] = JsNumber("2")],
      [NoBenefitBody EXCEPT !["quantity"] = JsNumber("10")],
      [NoBenefitBody EXCEPT !["quantity"] = JsNumber("20")],
      [NoBenefitBody EXCEPT !["notes"] = JsString("n")],
      [NoBenefitBody EXCEPT !["notes"] = JsString("")],
      [NoBenefitBody EXCEPT !["benefit_type"] = JsNull, !["benefit_description"] = JsString("b")] }

\* What a column holds, as the driver delivers it, after an UPDATE set it to
\* value: DECIMAL(.,2) keeps two decimals, a flag column stores true/false as
\* 1/0, an integer column stores a numeric text as the number.
Stored(field, value) ==
    CASE field = "price" /\ value.type = "number" -> JsString(value.v \o ".00")
      [] field = "is_active" /\ value.type = "boolean" ->
            JsNumber(IF value.v = "true" THEN "1" ELSE "0")
      [] field \in {"plan_id", "quantity", "duration_days"} /\ value.type = "string" ->
            JsNumber(value.v)
      [] OTHER -> value

\* const useValidValue = (newVal, oldVal) => ...
useValidValue(newVal, oldVal) ==
    IF newVal # Absent /\ newVal # JsNull /\ newVal # JsString("") THEN newVal ELSE oldVal
\* const updatedPlan = {...} / const updatedBenefit = {...}
Merged(body, existing) == [f \in DOMAIN existing |-> useValidValue(body[f], existing[f])]
\* Object.entries(updated).some(([key, value]) => value !== existing[key])
hasChanged(updated, existing) == \E f \in DOMAIN existing : updated[f] # existing[f]

\* A role check that lets everyone through.
IsAdminAlways(role) == TRUE
\* userRows[0].role_id !== 3 is false
IsAdmin(role) == role = ADMIN_ROLE_ID

Tables(t) == [plans |-> t.plans, planIds |-> t.planIds,
              benefits |-> t.benefits, benefitIds |-> t.benefitIds]
NoCall ==
    [pc |-> "idle", kind |-> "none", actor |-> 0, id |-> 0, body |-> NoPlanBody,
     userOk |-> FALSE, targetOk |-> FALSE, reads |-> 0, writes |-> 0, status |-> 0,
     pre |-> Tables(NoSubs)]

TargetExists(t, kind, id) == IF IsPlanKind(kind) THEN id \in t.planIds ELSE id \in t.benefitIds
TargetRow(t, kind, id) == IF IsPlanKind(kind) THEN t.plans[id] ELSE t.benefits[id]

\* The response is sent and the handler returns.
Respond(call, status) == [call EXCEPT !.pc = "idle", !.status = status]

\* A request arrives with a verified token (req.user.sub), an id and a body.
StartSubsCall ==
    /\ subs.call.pc = "idle"
    /\ subs.started < MaxSubsRequests
    /\ \E kind \in SubsKinds, actor \in ActorIds, id \in PlanIds :
        \E body \in (IF kind = "updateSubscriptionPlan" THEN PlanBodies
                     ELSE IF kind = "updatePlanBenefit" THEN BenefitBodies
                     ELSE {NoPlanBody}) :
            subs' = [subs EXCEPT !.started = @ + 1,
                        !.call = [NoCall EXCEPT !.pc = "selectUser", !.kind = kind,
                                    !.actor = actor, !.id = id, !.body = body,
                                    !.pre = Tables(subs)]]
    /\ UNCHANGED appVars

\* SELECT role_id FROM users WHERE id = ?, the 404 and the 403 return
SelectUserRole ==
    /\ subs.call.pc = "selectUser"
    /\ \E ok \in BOOLEAN :
        LET call == subs.call
            role == subs.users[call.actor]
        IN  subs' = [subs EXCEPT !.call =
                IF ~ok THEN Respond(call, 500)
                ELSE IF role = 0 THEN Respond([call EXCEPT !.userOk = TRUE], 404)
                ELSE IF ~IsAdmin(role) THEN Respond([call EXCEPT !.userOk = TRUE], 403)
                ELSE [call EXCEPT !.userOk = TRUE, !.pc = "selectTarget"]]
    /\ UNCHANGED appVars

\* SELECT * FROM <table> WHERE id = ?, the 404 return, and for the updates
\* the merge and the "No changes detected" return
SelectTarget ==
    /\ subs.call.pc = "selectTarget"
    /\ \E ok \in BOOLEAN :
        LET call == [subs.call EXCEPT !.reads = @ + 1]
            existing == TargetRow(subs, call.kind, call.id)
        IN  subs' = [subs EXCEPT !.call =
                IF ~ok THEN Respond(call, 500)
                ELSE IF ~TargetExists(subs, call.kind, call.id)
                THEN Respond([call EXCEPT !.targetOk = TRUE], 404)
                ELSE IF IsUpdateKind(call.kind) /\ ~hasChanged(Merged(call.body, existing), existing)
                THEN Respond([call EXCEPT !.targetOk = TRUE], 400)
                ELSE [call EXCEPT !.targetOk = TRUE, !.pc = "write"]]
    /\ UNCHANGED appVars

\* The table after UPDATE <table> SET <every field> = ? WHERE id = ?
AfterUpdate(t, call) ==
    LET existing == TargetRow(t, call.kind, call.id)
        updated == Merged(call.body, existing)
        row == [f \in DOMAIN existing |-> Stored(f, updated[f])]
    IN  IF ~TargetExists(t, call.kind, call.id) THEN t
        ELSE IF IsPlanKind(call.kind) THEN [t EXCEPT !.plans[call.id] = row]
        ELSE [t EXCEPT !.benefits[call.id] = row]
\* The table after DELETE FROM <table> WHERE id = ?
AfterDelete(t, call) ==
    IF IsPlanKind(call.kind)
    THEN [t EXCEPT !.plans[call.id] = BlankPlan, !.planIds = @ \ {call.id}]
    ELSE [t EXCEPT !.benefits[call.id] = BlankBenefit, !.benefitIds = @ \ {call.id}]

\* await db.query(UPDATE ... / DELETE ...), then the 200 response
WriteTarget ==
    /\ subs.call.pc = "write"
    /\ \E ok \in BOOLEAN :
        LET call == [subs.call EXCEPT !.writes = @ + 1]
            t == IF IsUpdateKind(call.kind) THEN AfterUpdate(subs, call) ELSE AfterDelete(subs, call)
        IN  subs' = IF ok THEN [t EXCEPT !.call = Respond(call, 200)]
                    ELSE [subs EXCEPT !.call = Respond(call, 500)]
    /\ UNCHANGED appVars

InitSubs ==
    /\ media = PublicIds
    /\ pool = [idle |-> <<>>, created |-> 0]
    /\ req = [s \in Slots |-> Idle]
    /\ started = 0
    /\ log = <<>>
    /\ last = Outcome(Idle, 0)
    /\ db = EmptyDb
    /\ cfg = [maxActive |-> 0, sameUser |-> FALSE, keepLog |-> FALSE]
    /\ faultsLeft = 0
    /\ agg = AggIdle
    /\ acct = NoAcct
    /\ \E active \in {"0", "1"}, notes \in {JsNull, JsString("n")} :
        subs = [users |-> SubsUsers,
                plans |-> [p \in PlanIds |-> IF p = 1 THEN PlanRow(active) ELSE BlankPlan],
                planIds |-> {1},
                benefits |-> [b \in BenefitIds |-> IF b = 1 THEN BenefitRow(notes) ELSE BlankBenefit],
                benefitIds |-> {1},
                started |-> 0,
                call |-> NoCall]

NextSubs == StartSubsCall \/ SelectUserRole \/ SelectTarget \/ WriteTarget

SpecSubs == InitSubs /\ [][NextSubs]_vars

\* The subscription request that ended last.
SubsEnded == subs.call.pc = "idle" /\ subs.call.kind # "none"

\* The body asks for nothing the record does not hold already: every field is
\* left out (or null, or empty), or names the value the column holds.
SameAsStored(body, existing) ==
    \A f \in DOMAIN existing :
        useValidValue(body[f], existing[f]) = existing[f] \/ Stored(f, body[f]) = existing[f]

\* C19: an update by an admin of an existing plan or benefit whose body holds
\* no value that differs from the stored one is answered 400 and issues no
\* UPDATE, for every combination of fields and for every representation of
\* the stored value.
C19_NoChangeNoUpdate ==
    LET call == subs.call IN
    (/\ SubsEnded /\ IsUpdateKind(call.kind) /\ call.userOk /\ call.targetOk
     /\ IsAdmin(subs.users[call.actor])
     /\ TargetExists(call.pre, call.kind, call.id)
     /\ SameAsStored(call.body, TargetRow(call.pre, call.kind, call.id)))
    => (call.status = 400 /\ call.writes = 0)

\* C20: the plan and benefit tables change only in a step of a request whose
\* acting user exists with role_id 3; a request of an existing user with
\* another role is answered 403 and one of a user without a row 404, each
\* with the target neither read nor written.
C20_AdminOnly ==
    /\ [][Tables(subs') # Tables(subs) =>
            subs.users[subs.call.actor] = ADMIN_ROLE_ID]_vars
    /\ [](LET call == subs.call
              role == subs.users[call.actor]
          IN  (SubsEnded /\ call.userOk /\ role # ADMIN_ROLE_ID) =>
                /\ call.status = IF role = 0 THEN 404 ELSE 403
                /\ call.reads = 0 /\ call.writes = 0
                /\ Tables(subs) = call.pre)

\* deletePlanBenefit of the existing benefit 1 by user 2, who is not an
\* admin, answered 403; the benefit is still there.
C20_Witness ==
    /\ SubsEnded /\ subs.call.kind = "deletePlanBenefit" /\ subs.call.actor = 2
    /\ subs.call.id = 1 /\ subs.call.status = 403 /\ 1 \in subs.benefitIds

\* ---------------------------------------------------------------------------
\* PATCH /admin/users/:userId/activate and /deactivate (userroute.js 34-35):
\* verifyToken, authorizeAdmin (authMiddleware.js), then handleActivateUser /
\* handleDeactivateUser (user.controller.js 48-148) over models/User.js.
\* ---------------------------------------------------------------------------

acctVars == <<db, media, pool, req, started, faultsLeft, cfg, log, last, agg, subs>>

AcctSlots == {1, 2}
AcctUserIds == {1, 2, 3}
AcctKinds == {"handleActivateUser", "handleDeactivateUser"}

\* header: no Authorization header, a token jwt.verify rejects, a token it accepts.
\* role, sub: the accepted token's claims.
NoAcctCall ==
    [pc |-> "idle", kind |-> "none", header |-> "none", role |-> "none", sub |-> 0,
     target |-> 0, status |-> 0, responses |-> 0, verifyNext |-> FALSE, adminNext |-> FALSE,
     handled |-> FALSE, writes |-> 0, isActive |-> Absent, pre |-> NULL, overlapped |-> FALSE]
\* isActive: what isUserActive returned to the handler (Absent before that);
\* pre: the target's is_active when the request arrived; overlapped: another
\* request was in progress at some moment of this one.

\* res.status(status).json(...) and the function returns
AcctDone(call, status) == [call EXCEPT !.pc = "done", !.status = status, !.responses = @ + 1]

AcctActive == {s \in AcctSlots : acct.calls[s].pc \notin {"idle", "done"}}
SetCall(s, call) == acct' = [acct EXCEPT !.calls[s] = call]
QueryOutcomes == IF acct.faults THEN BOOLEAN ELSE {TRUE}

\* A request arrives.
StartAcctCall(s) ==
    /\ acct.calls[s].pc \in {"idle", "done"}
    /\ acct.started < MaxAcctRequests
    /\ Cardinality(AcctActive) < acct.maxActive
    /\ \E kind \in AcctKinds, target \in AcctUserIds,
          token \in {<<"none", "none", 0>>, <<"bad", "none", 0>>}
                    \cup {<<"good", role, sub>> : role \in {"Admin", "User"}, sub \in {1, 2}} :
        acct' = [acct EXCEPT !.started = @ + 1,
                    !.calls = [t \in AcctSlots |->
                        IF t = s
                        THEN [NoAcctCall EXCEPT !.pc = "verifyToken", !.kind = kind,
                                !.target = target, !.header = token[1],
                                !.role = token[2], !.sub = token[3],
                                !.pre = acct.active[target],
                                !.overlapped = (AcctActive # {})]
                        ELSE IF t \in AcctActive THEN [acct.calls[t] EXCEPT !.overlapped = TRUE]
                        ELSE acct.calls[t]]]
    /\ UNCHANGED acctVars

\* verifyToken: 401 without a header, 400 when jwt.verify throws, else next()
VerifyToken(s) ==
    /\ acct.calls[s].pc = "verifyToken"
    /\ LET call == acct.calls[s] IN
       SetCall(s, IF call.header = "none" THEN AcctDone(call, 401)
                  ELSE IF call.header = "bad" THEN AcctDone(call, 400)
                  ELSE [call EXCEPT !.pc = "authorizeAdmin", !.verifyNext = TRUE])
    /\ UNCHANGED acctVars

\* An authorizeAdmin that lets every verified token through.
AnyRole(role) == TRUE
\* req.user && req.user.role === 'Admin'
IsAdminRole(role) == role = "Admin"

\* authorizeAdmin: next() for an Admin, else 403
AuthorizeAdmin(s) ==
    /\ acct.calls[s].pc = "authorizeAdmin"
    /\ LET call == acct.calls[s] IN
       SetCall(s, IF IsAdminRole(call.role)
                  THEN [call EXCEPT !.pc = "handler", !.adminNext = TRUE]
                  ELSE AcctDone(call, 403))
    /\ UNCHANGED acctVars

\* The handler up to its first await: the own-account check.
AcctHandler(s) ==
    /\ acct.calls[s].pc = "handler"
    /\ LET call == [acct.calls[s] EXCEPT !.handled = TRUE] IN
       SetCall(s, IF call.sub = call.target THEN AcctDone(call, 400)
                  ELSE [call EXCEPT !.pc = "isUserActive"])
    /\ UNCHANGED acctVars

\* isUserActive: rows.length > 0 ? rows[0].is_active : null.  The driver
\* delivers the TINYINT column as a number.
isUserActive(active, userId) ==
    IF active[userId] = NULL THEN JsNull
    ELSE IF active[userId] = 1 THEN JsNumber("1") ELSE JsNumber("0")

\* The value the handler compares isActive with (=== false / === true).
AlreadyValue(kind) == IF kind = "handleDeactivateUser" THEN JsBool("false") ELSE JsBool("true")

\* const isActive = await isUserActive(userId), and the two early returns
AcctIsUserActive(s) ==
    /\ acct.calls[s].pc = "isUserActive"
    /\ \E ok \in QueryOutcomes :
        LET isActive == isUserActive(acct.active, acct.calls[s].target)
            call == IF ok THEN [acct.calls[s] EXCEPT !.isActive = isActive] ELSE acct.calls[s]
        IN  SetCall(s, IF ~ok THEN AcctDone(call, 500)
                       ELSE IF isActive = AlreadyValue(call.kind) THEN AcctDone(call, 400)
                       ELSE IF isActive = JsNull THEN AcctDone(call, 404)
                       ELSE [call EXCEPT !.pc = "update"])
    /\ UNCHANGED acctVars

\* An UPDATE without the "AND is_active = ..." condition.
UpdateMatchesAnyRow(active, userId, from) == active[userId] # NULL
\* WHERE id = ? AND is_active = true / false
UpdateMatches(active, userId, from) == active[userId] = from

\* deactivateUser / activateUser: the conditional UPDATE, affectedRows, and
\* the handler's 404 / 200
AcctUpdate(s) ==
    /\ acct.calls[s].pc = "update"
    /\ \E ok \in QueryOutcomes :
        LET call == [acct.calls[s] EXCEPT !.writes = @ + 1]
            from == IF call.kind = "handleDeactivateUser" THEN 1 ELSE 0
            hit == UpdateMatches(acct.active, call.target, from)
        IN  acct' = IF ~ok THEN [acct EXCEPT !.calls[s] = AcctDone(call, 500)]
                    ELSE IF ~hit THEN [acct EXCEPT !.calls[s] = AcctDone(call, 404)]
                    ELSE [acct EXCEPT !.calls[s] = AcctDone(call, 200),
                                      !.active[call.target] = 1 - from]
    /\ UNCHANGED acctVars

InitAcctWith(maxActive, faults) ==
    /\ media = PublicIds
    /\ pool = [idle |-> <<>>, created |-> 0]
    /\ req = [s \in Slots |-> Idle]
    /\ started = 0
    /\ log = <<>>
    /\ last = Outcome(Idle, 0)
    /\ db = EmptyDb
    /\ cfg = [maxActive |-> 0, sameUser |-> FALSE, keepLog |-> FALSE]
    /\ faultsLeft = 0
    /\ agg = AggIdle
    /\ subs = NoSubs
    /\ \E third \in {NULL, 0, 1} :
        acct = [active |-> [u \in AcctUserIds |-> IF u = 3 THEN third ELSE 1],
                calls |-> [s \in AcctSlots |-> NoAcctCall],
                started |-> 0, maxActive |-> maxActive, faults |-> faults]

NextAcct ==
    \E s \in AcctSlots :
        \/ StartAcctCall(s) \/ VerifyToken(s) \/ AuthorizeAdmin(s) \/ AcctHandler(s)
        \/ AcctIsUserActive(s) \/ AcctUpdate(s)

\* One request after another; database calls may fail.
InitAcct == InitAcctWith(1, TRUE)
SpecAcct == InitAcct /\ [][NextAcct]_vars
\* Overlapping requests; every database call succeeds.
InitAcctRace == InitAcctWith(2, FALSE)
SpecAcctRace == InitAcctRace /\ [][NextAcct]_vars

\* The call was turned away by a middleware with this status: one response,
\* no next(), the handler not entered, no UPDATE issued.
TurnedAway(call, status, nextCalled) ==
    /\ call.status = status /\ call.responses = 1
    /\ ~nextCalled /\ ~call.handled /\ call.writes = 0

\* C21: the activate / deactivate handler is entered only with a header, a
\* verified token and the role claim 'Admin'; without a header the answer is
\* 401, with a token that fails verification 400, with another role 403, each
\* time as the only response, without next(), and with users.is_active
\* unchanged.
C21_AdminGate ==
    /\ [](\A s \in AcctSlots :
            LET call == acct.calls[s] IN
            /\ (call.handled \/ call.pc \in {"handler", "isUserActive", "update"}) =>
                    (call.header = "good" /\ call.role = "Admin" /\ call.responses <= 1)
            /\ (call.pc = "done" /\ call.header = "none") => TurnedAway(call, 401, call.verifyNext)
            /\ (call.pc = "done" /\ call.header = "bad") => TurnedAway(call, 400, call.verifyNext)
            /\ (call.pc = "done" /\ call.header = "good" /\ call.role # "Admin") =>
                    TurnedAway(call, 403, call.adminNext))
    /\ [][\A s \in AcctSlots :
            (acct'.calls[s] # acct.calls[s] /\ ~acct'.calls[s].handled) =>
                acct'.active = acct.active]_vars

\* A deactivate request for the active user 3 with a verified token whose
\* role is not Admin was answered 403; user 3 is still active.
C21_Witness ==
    \E s \in AcctSlots :
        LET call == acct.calls[s] IN
        /\ call.pc = "done" /\ call.kind = "handleDeactivateUser" /\ call.header = "good"
        /\ call.role = "User" /\ call.target = 3 /\ call.status = 403
        /\ acct.active[3] = 1

\* A handled request that was not on the acting admin's own account and in
\* which no database call failed.
Decided(call) == call.pc = "done" /\ call.handled /\ call.sub # call.target /\ call.status # 500

\* C27: users.is_active changes only in a step of a request that is answered
\* 200; a request on the acting admin's own account is answered 400 without
\* an UPDATE; deactivating a user found inactive, or activating one found
\* active, is answered 400 and changes nothing; a target without a row is
\* answered 404.
C27_FlagChangesOnlyOn200 ==
    /\ [][acct'.active # acct.active =>
            \E s \in AcctSlots : /\ acct.calls[s].pc = "update"
                                 /\ acct'.calls[s].pc = "done" /\ acct'.calls[s].status = 200]_vars
    /\ [](\A s \in AcctSlots :
            LET call == acct.calls[s] IN
            /\ (call.pc = "done" /\ call.handled /\ call.sub = call.target) =>
                    (call.status = 400 /\ call.writes = 0)
            /\ (Decided(call) /\ call.isActive = JsNull) => (call.status = 404 /\ call.writes = 0)
            /\ (/\ Decided(call)
                /\ call.isActive = JsNumber(IF call.kind = "handleDeactivateUser" THEN "0" ELSE "1"))
                    => (call.status = 400 /\ call.writes = 0))

\* Both slots hold ended requests of this kind by admins for user 3, neither
\* on their own account, that overlapped and both arrived while user 3's flag
\* was `from`.
RacePair(kind, from) ==
    \A s \in AcctSlots :
        LET call == acct.calls[s] IN
        /\ call.pc = "done" /\ call.kind = kind /\ call.target = 3
        /\ call.handled /\ call.overlapped /\ call.pre = from

\* C30: of two overlapping deactivate requests by admins for the same active
\* user exactly one is answered 200, the other is not, and the user ends
\* inactive; likewise for two overlapping activate requests on an inactive
\* user, which ends active.
C30_ExactlyOneWins ==
    /\ RacePair("handleDeactivateUser", 1) =>
            /\ Cardinality({s \in AcctSlots : acct.calls[s].status = 200}) = 1
            /\ acct.active[3] = 0
    /\ RacePair("handleActivateUser", 0) =>
            /\ Cardinality({s \in AcctSlots : acct.calls[s].status = 200}) = 1
            /\ acct.active[3] = 1

\* Two overlapping deactivate requests for the active user 3 both read the
\* flag before either UPDATE ran; one was answered 200, the other 404.
C30_Witness ==
    /\ RacePair("handleDeactivateUser", 1)
    /\ \A s \in AcctSlots : acct.calls[s].isActive = JsNumber("1") /\ acct.calls[s].writes = 1
    /\ {acct.calls[s].status : s \in AcctSlots} = {200, 404}

\* ---------------------------------------------------------------------------
\* Duplicate slugs: createBlog and updateBlog, one request after another,
\* calls may fail.
\* ---------------------------------------------------------------------------

\* updateBlog whose body holds only a slug
StartSlugUpdate(s) ==
    /\ CanStartFetch(s)
    /\ started' = started + 1
    /\ \E b \in BlogIds :
        Goto(s, NewRequest("updateBlog", "getConnection", 0, b,
                           [NoBody EXCEPT !.has = {"slug"}, !.slug = "s2"]))
    /\ UNCHANGED <<db, media, pool, faultsLeft, cfg, agg, subs, acct>>

InitSlug ==
    /\ InitCommon
    /\ agg = AggIdle
    /\ db \in {d \in BlogDbs : d.next_id = 2}
    /\ cfg = [maxActive |-> 1, sameUser |-> FALSE, keepLog |-> FALSE]
    /\ faultsLeft = MaxFaults

NextSlug ==
    \E s \in Slots :
        \/ StartFetchCreate(s) \/ StartSlugUpdate(s)
        \/ GetConnection(s) \/ BeginTransaction(s) \/ Commit(s) \/ Rollback(s)
        \/ CreateInsertBlog(s) \/ InsertImage(s) \/ UpdateSelectBlog(s) \/ UpdateFields(s)

SpecSlug == InitSlug /\ [][NextSlug]_vars

\* C22: when the database rejects a write of createBlog or updateBlog with a
\* duplicate-key signal on the slug, the response (if the rollback did not
\* fail) has status 400, and the request leaves the blog and image rows as
\* they were.
C22_DuplicateSlug ==
    [][\A s \in Slots :
        ((Ends(s, "createBlog") \/ Ends(s, "updateBlog")) /\ req[s].err = "ER_DUP_ENTRY") =>
            /\ last'.status # 0 => last'.status = 400
            /\ db'.blogs = Baseline(req[s]).blogs
            /\ db'.blog_images = Baseline(req[s]).blog_images
      ]_vars

\* C23: every createBlog, updateBlog and deleteBlog request ends with a
\* response, whichever of its database statements, commit, rollback or media
\* calls fails (status 0 stands for a handler that ended without sending one).
C23_AlwaysResponds ==
    [][\A s \in Slots :
        (Ends(s, "createBlog") \/ Ends(s, "updateBlog") \/ Ends(s, "deleteBlog")) =>
            last'.status # 0
      ]_vars

\* C25: deleteBlog calls the media host only after the transaction that
\* deletes the blog's rows has been committed.
C25_MediaAfterCommit ==
    [][\A s \in Slots :
        (/\ req[s].kind = "deleteBlog"
         /\ req[s].pc \in {"destroyFeatured", "destroyImage"}
         /\ req'[s] # req[s]) => ~req[s].conn.tx
      ]_vars

\* C28: createBlog, updateBlog and deleteBlog never hand a connection back
\* to the pool with the transaction they began still open.
C28_NoOpenRelease ==
    [][\A s \in Slots :
        (Ends(s, "createBlog") \/ Ends(s, "updateBlog") \/ Ends(s, "deleteBlog")) =>
            ~last'.releasedOpen
      ]_vars

(***************************************************************************)
(* getAllPatients (hospitals.controller.js 548-642): GET /admin/patients.  *)
(* One SELECT over patient_profiles p JOIN users u, the filters of the     *)
(* query string appended to its WHERE clause, ORDER BY p.created_at DESC.  *)
(* Texts are sequences of characters.                                      *)
(***************************************************************************)
Genders == {"Female", "Male"}
FullNames == {<<"a", "b">>, <<"a", "_">>}
Emails == {<<"b">>, <<"_">>}
CreatedAts == {1, 2}
\* One row of the join: the profile with its user's name and email.
PatientRows ==
    [gender : Genders, full_name : FullNames, email : Emails, created_at : CreatedAts]
RECURSIVE PatientTablesOf(_)
PatientTablesOf(n) ==
    IF n = 0 THEN {<<>>}
    ELSE LET shorter == PatientTablesOf(n - 1)
         IN  shorter \cup {Append(t, row) : t \in {u \in shorter : Len(u) = n - 1},
                                              row \in PatientRows}
PatientTables == PatientTablesOf(MaxPatients)

\* req.query: a parameter left out is undefined, which is falsy like "".
PatientQueries ==
    [gender : {""} \cup Genders,
     full_name : {<<>>, <<"a">>, <<"_">>, <<"b", "%">>},
     email : {<<>>, <<"b">>, <<"_">>}]

\* text LIKE pattern: % stands for any run of characters, _ for any one.
RECURSIVE Like(_, _)
Like(text, pattern) ==
    IF pattern = <<>> THEN text = <<>>
    ELSE IF Head(pattern) = "%"
         THEN IF Like(text, Tail(pattern)) THEN TRUE
              ELSE text # <<>> /\ Like(Tail(text), pattern)
         ELSE IF text = <<>> THEN FALSE
              ELSE /\ Head(pattern) \in {"_", Head(text)}
                   /\ Like(Tail(text), Tail(pattern))

\* `%${value}%`
Partial(value) == <<"%">> \o value \o <<"%">>

\* if (full_name) u.full_name LIKE ?; if (email) u.email LIKE ?;
\* if (gender) p.gender = ?; the clauses joined with AND.
Where(row, query) ==
    /\ query.full_name # <<>> => Like(row.full_name, Partial(query.full_name))
    /\ query.email # <<>> => Like(row.email, Partial(query.email))
    /\ query.gender # "" => row.gender = query.gender

\* ORDER BY p.created_at DESC over the selected ids; rows of one created_at
\* come in whatever order the server picks.
IsOrdering(order, table, ids) ==
    /\ {order[i] : i \in DOMAIN order} = ids
    /\ \A i \in DOMAIN order : i > 1 =>
        table[order[i - 1]].created_at >= table[order[i]].created_at
Orderings(table, ids) ==
    {order \in [1..Cardinality(ids) -> ids] : IsOrdering(order, table, ids)}

\* const { full_name, email, gender } = req.query
StartGetAllPatients ==
    /\ agg.pc = "idle"
    /\ \E query \in PatientQueries :
        agg' = [agg EXCEPT !.pc = "patientsQuery", !.query = query]
    /\ UNCHANGED blogVars

\* await db.query(query, values): it throws and the catch answers 500, or it
\* returns the rows and the handler answers 200 with them.
PatientsQuery ==
    /\ agg.pc = "patientsQuery"
    /\ \E ok \in BOOLEAN :
        IF ok
        THEN \E order \in Orderings(agg.patients,
                                    {i \in 1..Len(agg.patients) :
                                        Where(agg.patients[i], agg.query)}) :
                agg' = [agg EXCEPT !.pc = "patientsDone", !.status = 200, !.rows = order]
        ELSE agg' = [agg EXCEPT !.pc = "patientsDone", !.status = 500]
    /\ UNCHANGED blogVars

InitPatients ==
    /\ InitNoBlog("keys")
    /\ \E table \in PatientTables :
        agg = [pc |-> "idle", patients |-> table, query |-> <<>>, status |-> 0, rows |-> <<>>]
NextPatients == StartGetAllPatients \/ PatientsQuery
SpecPatients == InitPatients /\ [][NextPatients]_vars

\* value occurs in text as a run of consecutive characters
Contains(text, value) ==
    \E i \in 0..(Len(text) - Len(value)) : SubSeq(text, i + 1, i + Len(value)) = value

\* What the filters of a query ask of a row.
Asked(row, query) ==
    /\ query.gender # "" => row.gender = query.gender
    /\ query.full_name # <<>> => Contains(row.full_name, query.full_name)
    /\ query.email # <<>> => Contains(row.email, query.email)

Answered200 == agg.pc = "patientsDone" /\ agg.status = 200
ReturnedIds == {agg.rows[i] : i \in 1..Len(agg.rows)}

\* C24: a 200 answer of getAllPatients holds each patient row whose gender
\* equals the gender filter and whose full_name and email contain the
\* full_name and email filters (every filter that is given, combined with
\* AND) exactly once and no other row, every row when no filter is given,
\* and the rows are in descending order of created_at.
C24_FilteredPatients ==
    Answered200 =>
        /\ ReturnedIds = {i \in 1..Len(agg.patients) : Asked(agg.patients[i], agg.query)}
        /\ Len(agg.rows) = Cardinality(ReturnedIds)
        /\ \A i \in 1..Len(agg.rows) - 1 :
            agg.patients[agg.rows[i]].created_at >= agg.patients[agg.rows[i + 1]].created_at

(***************************************************************************)
(* addComment (blog.controller.js 1595-1628) and shareBlog (1846-1888).    *)
(* Like likeBlog they go through db.query: autocommit, no transaction.     *)
(***************************************************************************)
\* INSERT INTO blog_comments (blog_id, ...) / INSERT INTO blog_shares (blog_id, ...)
InsertComment(d, b) == [d EXCEPT !.blog_comments[b] = @ + 1]
InsertShare(d, b) == [d EXCEPT !.blog_shares[b] = @ + 1]

\* if (!comment || comment.trim() === "") return 400
StartAddComment(s) ==
    /\ CanStart(s)
    /\ started' = started + 1
    /\ \E u \in Users, b \in BlogIds, comment \in {"", "c"} :
        LET r == NewRequest("addComment", "selectBlog", u, b, NoBody) IN
        IF ~Truthy(comment) THEN End(s, r, 400, db) ELSE Goto(s, r)
    /\ UNCHANGED <<db, media, pool, faultsLeft, cfg, agg, subs, acct>>

\* SELECT id FROM blogs WHERE id = ?; no row: 404
CommentSelectBlog(s) ==
    /\ req[s].kind = "addComment" /\ req[s].pc = "selectBlog"
    /\ \E ok \in Outcomes :
        /\ Spend(ok)
        /\ IF ~ok THEN End(s, req[s], 500, db)
           ELSE IF ~db.blogs[req[s].blog].exists THEN End(s, req[s], 404, db)
           ELSE Goto(s, [req[s] EXCEPT !.pc = "insert"])
    /\ UNCHANGED <<db, media, pool, started, cfg, agg, subs, acct>>

\* the INSERT, then 201
CommentInsert(s) ==
    /\ req[s].kind = "addComment" /\ req[s].pc = "insert"
    /\ \E ok \in Outcomes :
        /\ Spend(ok)
        /\ IF ~ok THEN End(s, req[s], 500, db) /\ UNCHANGED db
           ELSE /\ db' = InsertComment(db, req[s].blog)
                /\ End(s, req[s], 201, db')
    /\ UNCHANGED <<media, pool, started, cfg, agg, subs, acct>>

\* if (!platform || platform.trim() === "") return 400
StartShareBlog(s) ==
    /\ CanStart(s)
    /\ started' = started + 1
    /\ \E u \in Users, slug \in Slugs, platform \in {"", "p"} :
        LET r == NewRequest("shareBlog", "selectBlog", u, 0, [NoBody EXCEPT !.slug = slug]) IN
        IF ~Truthy(platform) THEN End(s, r, 400, db) ELSE Goto(s, r)
    /\ UNCHANGED <<db, media, pool, faultsLeft, cfg, agg, subs, acct>>

\* SELECT id FROM blogs WHERE slug = ?; no row: 404; blogId = blogRows[0].id
ShareSelectBlog(s) ==
    /\ req[s].kind = "shareBlog" /\ req[s].pc = "selectBlog"
    /\ \E ok \in Outcomes :
        /\ Spend(ok)
        /\ LET blogRows == {b \in BlogIds : db.blogs[b].exists /\ db.blogs[b].slug = req[s].body.slug} IN
           IF ~ok THEN End(s, req[s], 500, db)
           ELSE IF blogRows = {} THEN End(s, req[s], 404, db)
           ELSE \E b \in blogRows : Goto(s, [req[s] EXCEPT !.pc = "insert", !.blog = b])
    /\ UNCHANGED <<db, media, pool, started, cfg, agg, subs, acct>>

ShareInsert(s) ==
    /\ req[s].kind = "shareBlog" /\ req[s].pc = "insert"
    /\ \E ok \in Outcomes :
        /\ Spend(ok)
        /\ IF ~ok THEN End(s, req[s], 500, db) /\ UNCHANGED db
           ELSE /\ db' = InsertShare(db, req[s].blog)
                /\ Goto(s, [req[s] EXCEPT !.pc = "count"])
    /\ UNCHANGED <<media, pool, started, cfg, agg, subs, acct>>

\* SELECT COUNT(*) AS totalShares FROM blog_shares WHERE blog_id = ?, then 201
ShareCount(s) ==
    /\ req[s].kind = "shareBlog" /\ req[s].pc = "count"
    /\ \E ok \in Outcomes :
        /\ Spend(ok)
        /\ IF ~ok THEN End(s, req[s], 500, db)
           ELSE End(s, [req[s] EXCEPT !.count = db.blog_shares[req[s].blog]], 201, db)
    /\ UNCHANGED <<db, media, pool, started, cfg, agg, subs, acct>>

\* One deleteBlog request and one likeBlog, addComment or shareBlog request,
\* overlapping; blog 1 has a row in each dependent table, blog 2 is absent.
ChildDb ==
    [EmptyDb EXCEPT
        !.blogs[1] = [exists |-> TRUE, slug |-> "s1", title |-> "t1",
                      featured |-> "pa", likes_count |-> 1],
        !.blog_images[1] = ImageRows(<<"pb">>),
        !.blog_comments[1] = 1,
        !.blog_shares[1] = 1,
        !.blog_likes[<<1, 1>>] = 1,
        !.next_id = 2]
InitChildren ==
    /\ InitCommon
    /\ agg = AggIdle
    /\ db = ChildDb
    /\ cfg = [maxActive |-> 2, sameUser |-> FALSE, keepLog |-> FALSE]
    /\ faultsLeft = MaxFaults
NextChildren ==
    \E s \in Slots :
        \/ StartDeleteBlog(s) \/ StartLikeBlog(s) \/ StartAddComment(s) \/ StartShareBlog(s)
        \/ LikeStep(s)
        \/ CommentSelectBlog(s) \/ CommentInsert(s)
        \/ ShareSelectBlog(s) \/ ShareInsert(s) \/ ShareCount(s)
        \/ GetConnection(s) \/ BeginTransaction(s) \/ Commit(s) \/ Rollback(s)
        \/ DeleteSelectImages(s) \/ DeleteSelectFeatured(s) \/ DeleteChildren(s) \/ DeleteBlogRow(s)
        \/ DeleteRollback404(s) \/ DeleteDestroyFeatured(s) \/ DeleteDestroyImage(s)
SpecChildren == InitChildren /\ [][NextChildren]_vars

\* Blog b has a row in a dependent table.
HasChildRows(d, b) ==
    \/ d.blog_comments[b] > 0
    \/ d.blog_shares[b] > 0
    \/ d.blog_images[b] # <<>>
    \/ \E u \in Users : d.blog_likes[<<u, b>>] > 0
NoOrphans == \A b \in BlogIds : HasChildRows(db, b) => db.blogs[b].exists
\* The statements request r has issued on its connection, in order.
IssuedOps(r) == [k \in 1..Len(r.conn.writes) |-> r.conn.writes[k].op]

\* C26: deleteBlog issues the DELETEs of the blog's comments, likes, shares
\* and images before the DELETE of the blogs row, and whenever no request is
\* in progress no comment, like, share or image row belongs to a blog id
\* that has no blogs row, also when a likeBlog, addComment or shareBlog
\* request for the blog overlaps the deleteBlog request.
C26_NoOrphanRows ==
    /\ [](Active = {} => NoOrphans)
    /\ [][\A s \in Slots :
            (req[s].kind = "deleteBlog" /\ req[s].pc = "deleteBlog" /\ req'[s] # req[s]) =>
                IssuedOps(req[s]) = <<"deleteComments", "deleteLikes", "deleteShares", "deleteImages">>]_vars

(***************************************************************************)
(* likeBlog requests of one user for one blog that overlap.  cfg.start     *)
(* keeps the tables of the initial state.                                  *)
(***************************************************************************)
InitLikeSame ==
    /\ InitCommon
    /\ agg = AggIdle
    /\ db \in LikeDbs
    /\ cfg = [maxActive |-> 2, sameUser |-> TRUE, keepLog |-> TRUE, start |-> db]
    /\ faultsLeft = 0
SpecLikeSame == InitLikeSame /\ [][NextLike]_vars

\* What the likeBlog requests for the pair have found with their SELECT of
\* the like row (TRUE: a row), those still in progress and those answered.
ReadsInProgress(u, b) ==
    {s \in Slots : /\ req[s].kind = "likeBlog" /\ req[s].user = u /\ req[s].blog = b
                   /\ req[s].pc \in {"write", "count", "update"}}
AnsweredLikes(u, b) ==
    {k \in 1..Len(log) : /\ log[k].kind = "likeBlog" /\ log[k].user = u /\ log[k].blog = b
                         /\ log[k].status = 200}
\* Two requests for the pair found the same thing: no write came between
\* their SELECTs.
Raced(u, b) ==
    \/ \E s, t \in ReadsInProgress(u, b) : s # t /\ req[s].hasLike = req[t].hasLike
    \/ \E s \in ReadsInProgress(u, b), k \in AnsweredLikes(u, b) : req[s].hasLike = ~log[k].liked
    \/ \E j, k \in AnsweredLikes(u, b) : j # k /\ log[j].liked = log[k].liked
\* Exactly two requests for the pair were made, both are answered 200 and
\* no request is in progress.
TwoToggled(u, b) ==
    /\ Active = {}
    /\ Cardinality(AnsweredLikes(u, b)) = 2
    /\ Cardinality({k \in 1..Len(log) : log[k].user = u /\ log[k].blog = b}) = 2
Liked(d, u, b) == d.blog_likes[<<u, b>>] > 0

\* C29: every (user, blog) pair has at most one blog_likes row in every
\* reachable state, also when two likeBlog requests of the user for the blog
\* overlap and both read the like row before either writes; and when both
\* requests have ended the pair is liked exactly if it was at the start, as
\* after two toggles made one after the other.
C29_AtMostOneRow ==
    \A u \in Users, b \in BlogIds :
        /\ db.blog_likes[<<u, b>>] <= 1
        /\ TwoToggled(u, b) => (Liked(db, u, b) <=> Liked(cfg.start, u, b))

\* C29: as amended: every (user, blog) pair has at most one blog_likes row in
\* every reachable state unless two likeBlog requests of the user for the
\* blog both read the like row before either has written; and when two
\* requests that did not race in this way have ended, the pair is liked
\* exactly if it was at the start.
C29_AtMostOneRowUnlessRaced ==
    \A u \in Users, b \in BlogIds :
        ~Raced(u, b) =>
            /\ db.blog_likes[<<u, b>>] <= 1
            /\ TwoToggled(u, b) => (Liked(db, u, b) <=> Liked(cfg.start, u, b))

\* Two requests of user 1 for blog 1 overlapped without racing: the second
\* read the like row after the first had written, and ended first.
C29_Witness ==
    /\ TwoToggled(1, 1) /\ ~Raced(1, 1)
    /\ log[1].prior # cfg.start.blog_likes[<<1, 1>>]

====
